---- MODULE Spec2Model ----
(***************************************************************************)
(* A model of the gym-scraper orchestration pipeline: the session gate     *)
(* and login task of agents/sessionManager.ts, the fetch decision of       *)
(* middleware/stealthFetcher.ts, the trap detector, the extraction         *)
(* validator, the normaliser, the upsert sink and GymScanner.run with its  *)
(* validation retry.                                                       *)
(*                                                                         *)
(* Spec is one run() of a GymScanner together with the session manager     *)
(* of the process.  SessionSpec is the session manager with the other      *)
(* run() invocations of the process, the Callers, which go through the     *)
(* stage-3 gate wait, borrow a page and receive responses on it.           *)
(* RerunSpec is a GymScanner performing its runs one after another         *)
(* against a site that raises no logout signal.                            *)
(***************************************************************************)
EXTENDS Integers, Sequences, FiniteSets, TLC

\* ---------------------------------------------------------------------
\* Bounds of the model
\* ---------------------------------------------------------------------
MaxRuns == 2
MaxCalls == 3
MaxGates == 2
NumCallers == 2

\* ---------------------------------------------------------------------
\* Program constants
\* ---------------------------------------------------------------------
COOKIE_TTL_HOURS == 24

MAX_LOGIN_ATTEMPTS == 2

Callers == 1..NumCallers

VARIABLES
  \* sessionManager.ts module state
  currentState,     \* 'unknown' | 'logged-in' | 'logged-out'
  loginInProgress,  \* the re-entrancy flag
  gates,            \* every promise that has been the sessionGate, in order;
                    \* the last one is the current sessionGate
  gateResolve,      \* index of the gate the stored resolve/reject settle, 0 = null
  logins,           \* the onLoggedOut invocations that got past the guard
  cookieFile,       \* .cookies.json: "none" | "fresh" | "stale"
  \* other overlapping run() invocations
  callerPc,
  callerGate,
  \* process configuration (loadAgentConfig)
  cfg,
  \* the GymScanner: its trap detector, the run in progress, the settled runs
  trapDetector,
  run,
  results,
  \* the upsert sink: the calls of the run in progress, in order
  upLog,
  \* the fetch layer under overlapping fetchWithStealth calls: each call's
  \* position and locals, and the module state they share (robotsCache,
  \* limiters, the BrowserManager's engine)
  fetchers,
  net,
  \* the trap detector called directly: the last call made and its verdict
  lastCheck,
  \* a library function called directly (validateExtraction,
  \* normalizeDateTime, analyseInterceptedRequests): the call and its result
  direct,
  \* a fetchWeekParallel call: its pattern, its seven workers, its result
  week,
  \* the Node process: running, in the signal handler's cleanup, or exited
  proc

sessionVars == <<currentState, loginInProgress, gates, gateResolve, logins, cookieFile>>
callerVars == <<callerPc, callerGate>>
scannerVars == <<trapDetector, run, results, upLog, lastCheck, direct, week, proc>>
vars == <<currentState, loginInProgress, gates, gateResolve, logins, cookieFile,
          callerPc, callerGate, cfg, trapDetector, run, results, upLog, fetchers, net,
          lastCheck, direct, week, proc>>

sessionGate == Len(gates)

\* =====================================================================
\* core/dateNormalizer.ts
\* =====================================================================
\* A time string is a record: t = "raw" is text of the shape
\* [day-word] H[:MM][ AM|PM] (day "" = no leading word, minute -1 = no
\* ":MM", mer "" = no meridiem); t = "text" is any other text (word holds
\* it); t = "iso" is an ISO-8601 UTC instant (day = days after the
\* reference date).
TimeStr(t, word, day, hour, minute, mer) ==
  [t |-> t, word |-> word, day |-> day, hour |-> hour, minute |-> minute, mer |-> mer]
RawTime(word, hour, minute, mer) == TimeStr("raw", word, 0, hour, minute, mer)
IsoTime(day, hour, minute) == TimeStr("iso", "", day, hour, minute, "")
TextTime(word) == TimeStr("text", word, 0, 0, -1, "")

NormFail == [ok |-> FALSE, value |-> TextTime("")]
NormOk(v) == [ok |-> TRUE, value |-> v]

DAY_MAP ==
  [w \in {"monday", "mon", "tuesday", "tue", "wednesday", "wed", "thursday", "thu",
          "friday", "fri", "saturday", "sat", "sunday", "sun"} |->
     CASE w \in {"monday", "mon"} -> 1
       [] w \in {"tuesday", "tue"} -> 2
       [] w \in {"wednesday", "wed"} -> 3
       [] w \in {"thursday", "thu"} -> 4
       [] w \in {"friday", "fri"} -> 5
       [] w \in {"saturday", "sat"} -> 6
       [] OTHER -> 7]

\* Offset of the zone from UTC in hours (local = UTC + offset).
ZoneOffset(timezone) ==
  CASE timezone = "America/New_York" -> -5
    [] timezone = "America/Chicago" -> -6
    [] OTHER -> 0

\* The regex of splitDayAndTime: a leading word is split off only in front
\* of digits[:digits][ am|pm]; anything else is all time part.
splitDayAndTime(text) ==
  IF text.t = "raw" /\ text.word # ""
    THEN [dayPart |-> text.word, timePart |-> RawTime("", text.hour, text.minute, text.mer)]
    ELSE [dayPart |-> "", timePart |-> text]

\* A resolution that takes the reference day's own name for next week's.
resolveNextDayNeverToday(currentWeekday, targetWeekday) ==
  IF targetWeekday = currentWeekday THEN 7
  ELSE (targetWeekday - currentWeekday + 7) % 7

resolveNextDay(currentWeekday, targetWeekday) ==
  (targetWeekday - currentWeekday + 7) % 7

\* Days to add to the reference date.
resolveDate(dayPart, currentWeekday) ==
  IF dayPart = "" \/ dayPart = "today" THEN 0
  ELSE IF dayPart = "tomorrow" THEN 1
  ELSE IF dayPart \notin DOMAIN DAY_MAP THEN 0
  ELSE resolveNextDay(currentWeekday, DAY_MAP[dayPart])

\* parseTime accepts H[:MM] AM|PM and H:MM; everything else throws.
parseTime(time) ==
  IF time.t = "raw" /\ time.word = "" /\ time.mer # ""
    THEN [ok |-> TRUE,
          hour |-> IF time.mer = "PM" /\ time.hour # 12 THEN time.hour + 12
                   ELSE IF time.mer = "AM" /\ time.hour = 12 THEN 0
                   ELSE time.hour,
          minute |-> IF time.minute = -1 THEN 0 ELSE time.minute]
  ELSE IF time.t = "raw" /\ time.word = "" /\ time.minute # -1
    THEN [ok |-> TRUE, hour |-> time.hour, minute |-> time.minute]
  ELSE [ok |-> FALSE, hour |-> 0, minute |-> 0]

\* Luxon's set({hour, minute}) is valid for 0..23 : 0..59 and for 24:00.
ValidLocalTime(hour, minute) ==
  \/ hour \in 0..23 /\ minute \in 0..59
  \/ hour = 24 /\ minute = 0

normalizeDateTime(raw, timezone, currentWeekday) ==
  LET parts == splitDayAndTime(raw)
      days == resolveDate(parts.dayPart, currentWeekday)
      tm == parseTime(parts.timePart)
      utcHour == tm.hour - ZoneOffset(timezone)
  IN IF ~tm.ok \/ ~ValidLocalTime(tm.hour, tm.minute) THEN NormFail
     ELSE NormOk(IsoTime(days + (utcHour \div 24), utcHour % 24, tm.minute))

\* =====================================================================
\* agents/dayWorkerPool.ts
\* =====================================================================
\* Header names as captured; toLowerCase of the mixed-case ones.
toLowerCase(name) ==
  CASE name = "Cookie" -> "cookie"
    [] name = "Sec-Fetch-Dest" -> "sec-fetch-dest"
    [] name = "X-Requested-With" -> "x-requested-with"
    [] OTHER -> name

\* headers is the set of header names of a request; a header that is
\* kept keeps its value.
sanitiseHeaders(headers) ==
  {key \in headers :
     toLowerCase(key) \notin {"host", "content-length", "transfer-encoding", "connection",
                              "cookie", "sec-fetch-site", "sec-fetch-mode",
                              "sec-fetch-dest"}}

\* A captured request: its url (parses = new URL() accepts it; date =
\* "param" for a date that is the value of a query parameter, "path" for
\* a date elsewhere in the url, "none"), its method, its postData ("none",
\* "text", "json" without and "json-dated" with a date field), its
\* headers.  A url template is the url with placeholder = the date has
\* been replaced by {{date}}; it parses after substitution when the url
\* did.
RECURSIVE analyseInterceptedRequests(_)
analyseInterceptedRequests(requests) ==
  IF requests = <<>> THEN <<>>
  ELSE LET req == Head(requests)
           fromUrl ==
             IF req.url.date = "none" THEN <<>>
             ELSE <<[urlTemplate |-> [parses |-> req.url.parses, placeholder |-> TRUE],
                     method |-> req.method,
                     dateParam |-> IF req.url.parses /\ req.url.date = "param"
                                     THEN "key" ELSE "date",
                     bodyTemplate |-> FALSE,
                     headers |-> sanitiseHeaders(req.headers)]>>
           fromBody ==
             IF req.method = "POST" /\ req.postData = "json-dated"
               THEN <<[urlTemplate |-> [parses |-> req.url.parses, placeholder |-> FALSE],
                       method |-> "POST", dateParam |-> "field", bodyTemplate |-> TRUE,
                       headers |-> sanitiseHeaders(req.headers)]>>
               ELSE <<>>
       IN fromUrl \o fromBody \o analyseInterceptedRequests(Tail(requests))

\* fetchSingleDay given what lightFetch did with the substituted request:
\* response.threw, or response.statusCode.  A date is a day number (the
\* ISO date string of that day).
fetchSingleDayNoUpperBound(pattern, date, response) ==
  IF response.threw THEN [date |-> date, success |-> FALSE, error |-> "transport"]
  ELSE IF response.statusCode >= 200
    THEN [date |-> date, success |-> TRUE, error |-> ""]
    ELSE [date |-> date, success |-> FALSE, error |-> "HTTP"]

fetchSingleDay(pattern, date, response) ==
  IF response.threw THEN [date |-> date, success |-> FALSE, error |-> "transport"]
  ELSE IF response.statusCode >= 200 /\ response.statusCode < 300
    THEN [date |-> date, success |-> TRUE, error |-> ""]
    ELSE [date |-> date, success |-> FALSE, error |-> "HTTP"]

\* One fetchWeekParallel call: the seven jobs handed to the api limiter
\* of the pattern's host (queued, running, fulfilled or rejected, with
\* the response the job's request got), and the limiter's reservoir.
WeekCall(pattern, weekStartDate) ==
  [pc |-> "awaiting", pattern |-> pattern, weekStartDate |-> weekStartDate,
   dates |-> [i \in 1..7 |-> weekStartDate + (i - 1)],
   hostname |-> IF pattern.urlTemplate.parses THEN "host" ELSE "unknown",
   jobs |-> [i \in 1..7 |-> [status |-> "queued", response |-> [threw |-> FALSE, statusCode |-> 0],
                              value |-> [date |-> 0, success |-> FALSE, error |-> ""]]],
   reservoir |-> 5, results |-> <<>>]

\* =====================================================================
\* Pages a site can serve, and what the scraper extracts from them
\* =====================================================================
NoLocation == [id |-> "undefined"]
LocationId(name) == [id |-> name]

Class(name, startTime) == [name |-> name, startTime |-> startTime, locationId |-> NoLocation]
Loc(name, timezone) == [name |-> name, timezone |-> timezone]

Mon6pm == RawTime("monday", 6, 0, "PM")
Tue9am == RawTime("tue", 9, -1, "AM")
Noon30 == RawTime("", 12, 30, "PM")
Pm99 == RawTime("", 99, -1, "PM")
Today13pm == RawTime("today", 13, -1, "PM")

\* The html bodies of the model.  "" is the empty body.
Htmls == {"", "shell", "wall", "filler", "two", "sched3", "garbled3", "badtime", "noloc",
          "times", "days"}

\* The non-empty bodies the sites of the run specifications serve.
RunHtmls == {"shell", "sched3", "garbled3", "badtime", "noloc"}

\* GenericScraper.extract(html, url): what the generic scraper returns for
\* each body.  It gives every result at least one location in zone 'UTC',
\* the placeholder "Main" when the page lists no address and one named
\* after the organization when it lists one.  parseClassSnippet builds
\* every start time as [day ]H[:MM] AM|PM.
GenericExtract(html, url) ==
  LET main == <<Loc("Main", "UTC")>>
      org == [name |-> url.host, websiteUrl |-> url]
  IN CASE html = "two" ->
            [organization |-> org, locations |-> main,
             classes |-> <<Class("Yoga", Mon6pm), Class("Spin", Tue9am)>>]
       [] html = "sched3" ->
            [organization |-> org, locations |-> <<Loc(url.host, "UTC")>>,
             classes |-> <<Class("Yoga", Mon6pm), Class("Spin", Tue9am), Class("HIIT", Noon30)>>]
       [] html = "garbled3" ->
            [organization |-> org, locations |-> main,
             classes |-> <<Class("<div>", Mon6pm), Class("{x}", Tue9am), Class("HIIT", Noon30)>>]
       [] html = "badtime" ->
            [organization |-> org, locations |-> main,
             classes |-> <<Class("Yoga", Mon6pm), Class("Spin", Pm99), Class("HIIT", Today13pm)>>]
       [] OTHER ->
            [organization |-> org, locations |-> main, classes |-> <<>>]

\* scraper.extract(html, url) of the scraper the factory selects.  A
\* ScrapeResult may hold classes and no location; the body "noloc" stands
\* for a page whose scraper returns such a result (the generic scraper
\* itself never does).
Extract(html, url) ==
  IF html = "noloc"
    THEN [organization |-> [name |-> url.host, websiteUrl |-> url],
          locations |-> <<>>,
          classes |-> <<Class("Yoga", Mon6pm), Class("Spin", Tue9am), Class("HIIT", Noon30)>>]
    ELSE GenericExtract(html, url)

\* Facts about a body that the regular expressions of the program test.
HasTimeToken(html) == html \in {"two", "sched3", "garbled3", "badtime", "noloc", "times"}
HasDayToken(html) == html \in {"two", "sched3", "garbled3", "badtime", "noloc", "days"}
LoginPhraseCount(html) == IF html = "wall" THEN 3 ELSE 0
WordCount(html) ==
  CASE html = "" -> 0
    [] html = "filler" -> 2000
    [] html \in {"shell", "wall"} -> 20
    [] OTHER -> 120
ScheduleTokenCount(html) ==
  CASE html \in {"", "shell", "wall"} -> 0
    [] html = "filler" -> 4
    [] OTHER -> 12
HasMarkupChar(name) == name \in {"<div>", "{x}"}

\* =====================================================================
\* Extraction validator.  Factors are in tenths (0.1 = 1, 1.0 = 10).
\* =====================================================================
NoHint == "none"
Check(factor, hint) == [factor |-> factor, hint |-> hint]

\* The live page as the validator sees it: absent, or present with the
\* DOM facts its queries return; a page of a closed context makes every
\* DOM query throw.
NoPage == [present |-> FALSE, open |-> FALSE, password |-> FALSE, nextButton |-> FALSE]
LivePage(open, password, nextButton) ==
  [present |-> TRUE, open |-> open, password |-> password, nextButton |-> nextButton]

\* A count check that scores an empty extraction like a partial one.
checkCountPlausibilityZeroAsPartial(result) ==
  LET count == Len(result.classes)
  IN IF count < 3 THEN Check(5, "paginate-forward")
     ELSE Check(10, NoHint)

checkCountPlausibility(result) ==
  LET count == Len(result.classes)
  IN IF count = 0 THEN Check(1, "wait-longer")
     ELSE IF count < 3 THEN Check(5, "paginate-forward")
     ELSE Check(10, NoHint)

checkContentCoherence(result) ==
  LET n == Len(result.classes)
      garbledCount == Cardinality({i \in 1..n : HasMarkupChar(result.classes[i].name)})
  IN IF n = 0 THEN Check(10, NoHint)
     ELSE IF garbledCount * 10 > 3 * n THEN Check(2, "switch-to-browser")
     ELSE IF garbledCount > 0 THEN Check(7, NoHint)
     ELSE Check(10, NoHint)

checkDuplicates(result) ==
  LET n == Len(result.classes)
      seen == {<<result.classes[i].name, result.classes[i].startTime>> : i \in 1..n}
  IN IF n <= 1 THEN Check(10, NoHint)
     ELSE IF Cardinality(seen) * 10 < 3 * n THEN Check(2, "wait-longer")
     ELSE IF Cardinality(seen) * 2 < n THEN Check(6, NoHint)
     ELSE Check(10, NoHint)

checkPaginationState(page) ==
  IF page.open /\ page.nextButton THEN Check(7, "paginate-forward")
  ELSE Check(10, NoHint)

checkAuthWall(page, html) ==
  IF page.open /\ page.password THEN Check(1, "re-authenticate")
  ELSE IF LoginPhraseCount(html) >= 2 THEN Check(4, "re-authenticate")
  ELSE Check(10, NoHint)

RECURSIVE FactorProduct(_)
FactorProduct(checks) ==
  IF checks = <<>> THEN 1 ELSE Head(checks).factor * FactorProduct(Tail(checks))

RECURSIVE FirstHint(_)
FirstHint(checks) ==
  IF checks = <<>> THEN NoHint
  ELSE IF Head(checks).hint # NoHint THEN Head(checks).hint
  ELSE FirstHint(Tail(checks))

RECURSIVE Pow10(_)
Pow10(n) == IF n = 0 THEN 1 ELSE 10 * Pow10(n - 1)

\* A validator that runs the pagination and auth-wall checks with or
\* without a page.
validateExtractionPageChecksAlways(result, page, html) ==
  LET checks == <<checkCountPlausibility(result), checkContentCoherence(result),
                  checkDuplicates(result), checkPaginationState(page),
                  checkAuthWall(page, html)>>
      num == FactorProduct(checks)
      den == Pow10(Len(checks))
  IN [valid |-> 2 * num >= den, num |-> num, den |-> den, retryHint |-> FirstHint(checks)]

\* confidence = num / den; valid iff confidence >= 0.5.
validateExtraction(result, page, html) ==
  LET base == <<checkCountPlausibility(result), checkContentCoherence(result),
                checkDuplicates(result)>>
      checks == IF page.present
                  THEN base \o <<checkPaginationState(page), checkAuthWall(page, html)>>
                  ELSE base
      num == FactorProduct(checks)
      den == Pow10(Len(checks))
  IN [valid |-> 2 * num >= den, num |-> num, den |-> den, retryHint |-> FirstHint(checks)]

NoValidation == [valid |-> TRUE, num |-> 1, den |-> 1, retryHint |-> NoHint]

\* =====================================================================
\* middleware/trapDetector.ts
\* =====================================================================
\* A url is a record: parses = FALSE for a string new URL() rejects; segs
\* are the non-empty path segments, each with its length and its Shannon
\* entropy in thousandths of a bit; params is the number of query
\* parameters.
Seg(name, len, milliEntropy) == [name |-> name, len |-> len, milliEntropy |-> milliEntropy]
Url(id, parses, host, segs, params) ==
  [id |-> id, parses |-> parses, host |-> host, segs |-> segs, params |-> params]

extractHostname(url) == IF url.parses THEN url.host ELSE url.id

analyseUrlPattern(url) ==
  LET n == Len(url.segs)
      count(i) == Cardinality({j \in 1..n : url.segs[j].name = url.segs[i].name})
  IN IF ~url.parses THEN [safe |-> FALSE, reason |-> "invalid"]
     ELSE IF \E i \in 1..n : count(i) >= 3 THEN [safe |-> FALSE, reason |-> "recursive"]
     ELSE IF url.params > 8 THEN [safe |-> FALSE, reason |-> "params"]
     ELSE IF \E i \in 1..n : url.segs[i].len > 20 /\ url.segs[i].milliEntropy > 4000
       THEN [safe |-> FALSE, reason |-> "entropy"]
     ELSE [safe |-> TRUE, reason |-> ""]

\* td is the detector's state: visitedUrls, contentHashes, depthCounters
\* (maps keyed by hostname; a missing key reads as empty / 0) and maxDepth.
MapGet(map, key, default) == IF key \in DOMAIN map THEN map[key] ELSE default
MapSet(map, key, value) == [k \in DOMAIN map \cup {key} |-> IF k = key THEN value ELSE map[k]]
EmptyMap == [k \in {} |-> 0]

\* A checkUrl whose depth limit is one call late.
checkUrlDepthPastLimit(td, url) ==
  LET hostname == extractHostname(url)
  IN IF MapGet(td.depthCounters, hostname, 0) > td.maxDepth
       THEN [safe |-> FALSE, reason |-> "depth"]
     ELSE IF url.id \in MapGet(td.visitedUrls, hostname, {})
       THEN [safe |-> FALSE, reason |-> "visited"]
     ELSE analyseUrlPattern(url)

checkUrl(td, url) ==
  LET hostname == extractHostname(url)
  IN IF MapGet(td.depthCounters, hostname, 0) >= td.maxDepth
       THEN [safe |-> FALSE, reason |-> "depth"]
     ELSE IF url.id \in MapGet(td.visitedUrls, hostname, {})
       THEN [safe |-> FALSE, reason |-> "visited"]
     ELSE analyseUrlPattern(url)

checkInformationDensity(content, classCount) ==
  LET wordCount == WordCount(content)
  IN IF wordCount < 100 THEN TRUE
     ELSE ~(wordCount > 500 /\ ScheduleTokenCount(content) * 1000 < 5 * wordCount
            /\ classCount = 0)

\* The hash of a body is the body's identity: distinct bodies of the
\* model have distinct hashes.
hashContent(content) == content

\* A checkContent that keeps only the latest hash of the host.
checkContentLatestHashOnly(td, url, content, classCount) ==
  LET hostname == extractHostname(url)
      hash == hashContent(content)
      hashes == MapGet(td.contentHashes, hostname, {})
  IN IF hash \in hashes THEN [safe |-> FALSE, td |-> td]
     ELSE IF ~checkInformationDensity(content, classCount) THEN [safe |-> FALSE, td |-> td]
     ELSE [safe |-> TRUE,
           td |-> [td EXCEPT
             !.contentHashes = MapSet(@, hostname, {hash}),
             !.visitedUrls = MapSet(@, hostname, MapGet(td.visitedUrls, hostname, {}) \cup {url.id}),
             !.depthCounters = MapSet(@, hostname, MapGet(td.depthCounters, hostname, 0) + 1)]]

checkContentRecordsBeforeDensity(td, url, content, classCount) ==
  LET hostname == extractHostname(url)
      hash == hashContent(content)
      hashes == MapGet(td.contentHashes, hostname, {})
      recorded == [td EXCEPT
             !.contentHashes = MapSet(@, hostname, hashes \cup {hash}),
             !.visitedUrls = MapSet(@, hostname, MapGet(td.visitedUrls, hostname, {}) \cup {url.id}),
             !.depthCounters = MapSet(@, hostname, MapGet(td.depthCounters, hostname, 0) + 1)]
  IN IF hash \in hashes THEN [safe |-> FALSE, td |-> td]
     ELSE [safe |-> checkInformationDensity(content, classCount), td |-> recorded]

\* checkContent returns the verdict and the detector's state after it.
checkContent(td, url, content, classCount) ==
  LET hostname == extractHostname(url)
      hash == hashContent(content)
      hashes == MapGet(td.contentHashes, hostname, {})
  IN IF hash \in hashes THEN [safe |-> FALSE, td |-> td]
     ELSE IF ~checkInformationDensity(content, classCount) THEN [safe |-> FALSE, td |-> td]
     ELSE [safe |-> TRUE,
           td |-> [td EXCEPT
             !.contentHashes = MapSet(@, hostname, hashes \cup {hash}),
             !.visitedUrls = MapSet(@, hostname, MapGet(td.visitedUrls, hostname, {}) \cup {url.id}),
             !.depthCounters = MapSet(@, hostname, MapGet(td.depthCounters, hostname, 0) + 1)]]

\* =====================================================================
\* agents/sessionManager.ts
\* =====================================================================
ActiveLogins == {t \in 1..Len(logins) : logins[t].pc # "done"}

\* A guard that looks at the session state alone.
OnLoggedOutSuppressedByStateOnly == currentState = "logged-out"

\* The re-entrancy guard of onLoggedOut.
OnLoggedOutSuppressed == loginInProgress \/ currentState = "logged-out"

\* onLoggedOut up to its await of performLogin.
onLoggedOut ==
  IF OnLoggedOutSuppressed
    THEN UNCHANGED <<currentState, loginInProgress, gates, gateResolve, logins>>
    ELSE /\ currentState' = "logged-out"
         /\ loginInProgress' = TRUE
         /\ gates' = Append(gates, "pending")
         /\ gateResolve' = Len(gates) + 1
         /\ logins' = Append(logins, [pc |-> "attempt", attempt |-> 1])

\* loadSavedCookies by what it finds: the store ("none", "corrupt" for a
\* file that does not read or parse, "saved" for one saveCookies wrote),
\* the age of the store in hours, and whether page.setCookie throws.  It
\* returns ret, the session state it leaves and whether it called
\* page.setCookie.
loadSavedCookiesStaleAtTtl(store, ageHours, cookieTtlHours, setCookieThrew, state) ==
  IF store = "none" THEN [ret |-> FALSE, currentState |-> state, setCookieCalled |-> FALSE]
  ELSE IF store = "corrupt"
    THEN [ret |-> FALSE, currentState |-> state, setCookieCalled |-> FALSE]
  ELSE IF ageHours >= cookieTtlHours
    THEN [ret |-> FALSE, currentState |-> state, setCookieCalled |-> FALSE]
  ELSE IF setCookieThrew
    THEN [ret |-> FALSE, currentState |-> state, setCookieCalled |-> TRUE]
  ELSE [ret |-> TRUE, currentState |-> "logged-in", setCookieCalled |-> TRUE]

loadSavedCookiesResult(store, ageHours, cookieTtlHours, setCookieThrew, state) ==
  IF store = "none" THEN [ret |-> FALSE, currentState |-> state, setCookieCalled |-> FALSE]
  ELSE IF store = "corrupt"
    THEN [ret |-> FALSE, currentState |-> state, setCookieCalled |-> FALSE]
  ELSE IF ageHours > cookieTtlHours
    THEN [ret |-> FALSE, currentState |-> state, setCookieCalled |-> FALSE]
  ELSE IF setCookieThrew
    THEN [ret |-> FALSE, currentState |-> state, setCookieCalled |-> TRUE]
  ELSE [ret |-> TRUE, currentState |-> "logged-in", setCookieCalled |-> TRUE]

\* loadSavedCookies: a fresh store is injected (setCookie may throw, which
\* is caught) and marks the session logged-in.
loadSavedCookies ==
  \/ /\ cookieFile = "fresh"
     /\ currentState' = "logged-in"
  \/ UNCHANGED currentState

\* waitForSession returns the current gate; the await of it continues,
\* throws or parks by the gate's state.
GateState(g) == gates[g]

\* Where a caller's await of the gate leaves it.
WaitOutcome(gateState) ==
  CASE gateState = "pending" -> "parked"
    [] gateState = "resolved" -> "fetching"
    [] OTHER -> "failed"

\* A settle that forgets the failure branch.
SettleGateOnSuccessOnly(gs, g, outcome) ==
  IF g # 0 /\ gs[g] = "pending" /\ outcome = "resolved"
    THEN [gs EXCEPT ![g] = outcome] ELSE gs

\* gateResolve?.() / gateReject?.(): the promise the stored functions
\* belong to is settled; settling a settled promise changes nothing.
SettleGate(gs, g, outcome) ==
  IF g # 0 /\ gs[g] = "pending" THEN [gs EXCEPT ![g] = outcome] ELSE gs

\* =====================================================================
\* The run in progress (GymScanner.run and what it calls)
\* =====================================================================
\* The gymTimezone arguments of the runs.
Timezones == {"America/New_York"}

\* The reference "now" of the normaliser is a Sunday.
CurrentWeekday == DAY_MAP["sunday"]

Schedule == Url("https://gym.example/schedule", TRUE, "gym.example",
                <<Seg("schedule", 8, 2750)>>, 0)
Labyrinth == Url("https://x/a/a/a/a/", TRUE, "x",
                 <<Seg("a", 1, 0), Seg("a", 1, 0), Seg("a", 1, 0), Seg("a", 1, 0)>>, 0)
RunUrls == {Schedule, Labyrinth}

NoFetch == [html |-> "", statusCode |-> -1, fetchMethod |-> "none", page |-> FALSE, context |-> 0]
FetchResult(html, statusCode, fetchMethod, page, context) ==
  [html |-> html, statusCode |-> statusCode, fetchMethod |-> fetchMethod,
   page |-> page, context |-> context]

NoPlan == [authWallDetected |-> FALSE, loadMoreSelector |-> FALSE]
NoScrape == [organization |-> [name |-> "", websiteUrl |-> Schedule],
             locations |-> <<>>, classes |-> <<>>]

IdleRun ==
  [pc |-> "idle", url |-> Schedule, timezone |-> "UTC",
   stage |-> "initial",       \* initial | plan | refetch | retry | main
   forceBrowser |-> FALSE, extraWaitMs |-> FALSE,
   fetchResult |-> NoFetch,   \* run's fetchResult
   retryFetch |-> NoFetch,    \* runWithOptions' fetchResult
   contexts |-> <<>>,         \* the browser contexts this run borrowed
   plan |-> NoPlan,
   scrapeResult |-> NoScrape, retryScrape |-> NoScrape,
   validation |-> NoValidation, validated |-> FALSE,
   retries |-> 0,
   gate |-> 0,                \* the gate the run is parked on
   login |-> 0,               \* the login the run awaits
   gateRejected |-> FALSE,    \* an await of the gate threw in this run
   prior |-> {},              \* earlier successful runs of the same url
   err |-> "", classesUpserted |-> 0]

Settled(r) == r.pc \in {"done", "failed"}

Fail(r, err) == [r EXCEPT !.pc = "failed", !.err = err]

\* A call of fetchWithStealth, up to its first await.
BeginFetch(r, stage, forceBrowser, extraWaitMs) ==
  [r EXCEPT !.pc = "fetch_robots", !.stage = stage,
            !.forceBrowser = forceBrowser, !.extraWaitMs = extraWaitMs,
            !.retries = IF stage = "retry" THEN @ + 1 ELSE @]

\* Stage 4 is left for stage 5; its plan goes out of scope.
ToExtract(r) == [r EXCEPT !.pc = "extract", !.stage = "main", !.plan = NoPlan]

\* What follows an await of the gate: run line 97 (stage initial) throws
\* out of run; line 131 (stage plan) is inside the planner's try block.
AfterWait(r, g, gateState) ==
  LET r1 == [r EXCEPT !.gate = 0, !.login = 0]
  IN CASE gateState = "pending" -> [r1 EXCEPT !.pc = "parked", !.gate = g]
       [] gateState = "resolved" ->
            IF r.stage = "initial" THEN BeginFetch(r1, "initial", FALSE, FALSE)
            ELSE [r1 EXCEPT !.pc = "refetch_close"]
       [] OTHER ->
            IF r.stage = "initial" THEN [Fail(r1, "login") EXCEPT !.gateRejected = TRUE]
            ELSE [ToExtract(r1) EXCEPT !.gateRejected = TRUE]

CloseContext(r, c) ==
  IF c = 0 THEN r ELSE [r EXCEPT !.contexts[c] = "closed"]

ContextOpen(r, c) == c # 0 /\ r.contexts[c] = "open"

\* The upsert sink's log.
Event(op, ev, pass, classes, ids) ==
  [op |-> op, ev |-> ev, pass |-> pass, classes |-> classes, ids |-> ids]

\* ---------------------------------------------------------------------
\* The login task: performLogin and the rest of onLoggedOut
\* ---------------------------------------------------------------------
\* The gate is settled through the stored gateResolve / gateReject, the
\* flag is cleared, and every continuation that waited runs: the callers
\* parked on the settled promise, and the run that awaited this login
\* inside checkForLoginWall, which goes on to waitForSession.
FinishLogin(t, outcome) ==
  LET gates2 == SettleGate(gates, gateResolve, outcome)
      released(g) == g # 0 /\ gates[g] = "pending" /\ gates2[g] # "pending"
      run1 == IF run.pc = "parked" /\ released(run.gate)
                THEN AfterWait(run, run.gate, gates2[run.gate]) ELSE run
      run2 == IF run1.pc = "await_login" /\ run1.login = t
                THEN AfterWait(run1, Len(gates2), gates2[Len(gates2)]) ELSE run1
  IN /\ gates' = gates2
     /\ loginInProgress' = FALSE
     /\ logins' = [logins EXCEPT ![t] = [pc |-> "done", attempt |-> 0]]
     /\ callerPc' = [c \in Callers |->
          IF callerPc[c] = "parked" /\ released(callerGate[c])
            THEN (IF gates2[callerGate[c]] = "resolved" THEN "resumed" ELSE "rejected")
          ELSE IF callerPc[c] = "await_login" /\ callerGate[c] = t + 1
            THEN WaitOutcome(gates2[Len(gates2)])
          ELSE callerPc[c]]
     /\ callerGate' = [c \in Callers |->
          IF callerPc[c] = "await_login" /\ callerGate[c] = t + 1
            THEN Len(gates2) ELSE callerGate[c]]
     /\ run' = run2
     /\ UNCHANGED <<gateResolve, cfg, trapDetector, results, upLog>>

\* One attempt of performLogin fails (fields not found, 2FA failed, still
\* on the login page, or a thrown error); without credentials performLogin
\* returns false at once.  After the last attempt onLoggedOut rejects.
LoginAttemptFails(t) ==
  /\ t \in 1..Len(logins) /\ logins[t].pc = "attempt"
  /\ IF cfg.credentials /\ logins[t].attempt < MAX_LOGIN_ATTEMPTS
       THEN /\ logins' = [logins EXCEPT ![t].attempt = @ + 1]
            /\ UNCHANGED <<currentState, loginInProgress, gates, gateResolve, cookieFile,
                           callerPc, callerGate, cfg, trapDetector, run, results, upLog>>
       ELSE /\ currentState' = "logged-out"
            /\ FinishLogin(t, "rejected")
            /\ UNCHANGED cookieFile

\* An attempt succeeds: performLogin sets logged-in and awaits saveCookies.
LoginAttemptSucceeds(t) ==
  /\ t \in 1..Len(logins) /\ logins[t].pc = "attempt"
  /\ cfg.credentials
  /\ currentState' = "logged-in"
  /\ logins' = [logins EXCEPT ![t].pc = "saving"]
  /\ UNCHANGED <<loginInProgress, gates, gateResolve, cookieFile,
                 callerPc, callerGate, cfg, trapDetector, run, results, upLog>>

\* saveCookies returns (a failed write is swallowed); performLogin returns
\* true and onLoggedOut resolves the gate.
LoginSaved(t) ==
  /\ t \in 1..Len(logins) /\ logins[t].pc = "saving"
  /\ cookieFile' \in {cookieFile, "fresh"}
  /\ currentState' = "logged-in"
  /\ FinishLogin(t, "resolved")

\* ---------------------------------------------------------------------
\* The other run() invocations
\* ---------------------------------------------------------------------
\* run line 97: await waitForSession().
CallerWait(c) ==
  /\ callerPc[c] = "idle"
  /\ callerGate' = [callerGate EXCEPT ![c] = sessionGate]
  /\ callerPc' = [callerPc EXCEPT ![c] = WaitOutcome(GateState(sessionGate))]
  /\ UNCHANGED <<sessionVars, cfg, scannerVars>>

\* borrowPage: the monitor is attached and the saved cookies are loaded.
CallerBorrow(c) ==
  /\ callerPc[c] \in {"fetching", "resumed"}
  /\ callerPc' = [callerPc EXCEPT ![c] = "browsing"]
  /\ loadSavedCookies
  /\ UNCHANGED <<loginInProgress, gates, gateResolve, logins, cookieFile,
                 callerGate, cfg, scannerVars>>

\* The response listener of the caller's page sees a logout signal.
CallerResponse(c) ==
  /\ callerPc[c] \in {"browsing", "signalled"}
  /\ Len(gates) <= MaxGates
  /\ callerPc' = [callerPc EXCEPT ![c] = "signalled"]
  /\ onLoggedOut
  /\ UNCHANGED <<cookieFile, callerGate, cfg, scannerVars>>

\* The caller's stage 4 finds an auth wall: checkForLoginWall sees a
\* password field and awaits onLoggedOut (login t is behind gate t + 1),
\* then line 131 waits for the gate.
CallerLoginWall(c) ==
  /\ callerPc[c] \in {"browsing", "signalled"}
  /\ IF OnLoggedOutSuppressed
       THEN /\ callerPc' = [callerPc EXCEPT ![c] = WaitOutcome(GateState(sessionGate))]
            /\ callerGate' = [callerGate EXCEPT ![c] = sessionGate]
       ELSE /\ Len(gates) <= MaxGates
            /\ callerPc' = [callerPc EXCEPT ![c] = "await_login"]
            /\ callerGate' = [callerGate EXCEPT ![c] = Len(gates) + 1]
  /\ onLoggedOut
  /\ UNCHANGED <<cookieFile, cfg, scannerVars>>

\* The caller's run settles and its context is closed.
CallerDone(c) ==
  /\ callerPc[c] \in {"browsing", "signalled"}
  /\ callerPc' = [callerPc EXCEPT ![c] = "done"]
  /\ UNCHANGED <<sessionVars, callerGate, cfg, scannerVars>>

\* ---------------------------------------------------------------------
\* GymScanner.run, stages 2 and 3
\* ---------------------------------------------------------------------
Summary(r) == [url |-> r.url, ok |-> r.pc = "done", err |-> r.err,
               html |-> r.fetchResult.html, retries |-> r.retries,
               classesUpserted |-> r.classesUpserted]

\* run(targetUrl, gymTimezone) up to its first await that does not return
\* at once: the trap guard, then the gate wait of line 97.  earlier are the
\* results of the scanner's settled runs.
Begin(u, tz, earlier) ==
  LET r0 == [IdleRun EXCEPT !.url = u, !.timezone = tz,
               !.prior = {i \in 1..Len(earlier) : earlier[i].ok /\ earlier[i].url = u}]
  IN IF ~checkUrl(trapDetector, u).safe THEN Fail(r0, "trap")
     ELSE AfterWait(r0, sessionGate, GateState(sessionGate))

\* The first run of the scanner.
Start(u, tz) ==
  /\ run.pc = "idle"
  /\ run' = Begin(u, tz, results)
  /\ UNCHANGED <<sessionVars, callerVars, cfg, trapDetector, results, upLog>>

\* run is called again on the same scanner once its previous run has
\* settled.
Rerun(u, tz) ==
  /\ Settled(run)
  /\ Len(results) + 1 < MaxRuns
  /\ results' = Append(results, Summary(run))
  /\ run' = Begin(u, tz, results')
  /\ upLog' = <<>>
  /\ UNCHANGED <<sessionVars, callerVars, cfg, trapDetector>>

\* What run / runWithOptions do with the result of fetchWithStealth.
FetchReturned(r, result) ==
  CASE r.stage = "initial" ->
         LET r1 == [r EXCEPT !.fetchResult = result]
         IN IF result.html = ""
              THEN Fail(r1, IF result.statusCode = 402 THEN "paywall" ELSE "empty")
            ELSE IF result.page /\ cfg.openaiApiKey
              THEN [r1 EXCEPT !.pc = "plan", !.stage = "plan"]
            ELSE ToExtract(r1)
    [] r.stage = "refetch" ->
         LET r1 == [r EXCEPT !.fetchResult = result]
         IN IF r.plan.loadMoreSelector /\ result.page
              THEN [ToExtract(r1) EXCEPT !.pc = "loadmore"]
              ELSE ToExtract(r1)
    [] OTHER ->
         LET r1 == [r EXCEPT !.retryFetch = result, !.extraWaitMs = FALSE]
         IN IF r.extraWaitMs /\ result.page
              THEN [r1 EXCEPT !.pc = "retry_wait"]
              ELSE [r1 EXCEPT !.pc = "retry_extract"]

\* Stage 7 (the content trap check, which only warns) and the entry into
\* the persist stage of run: upsertOrganization is called.
ToMainPersist(r) == [r EXCEPT !.pc = "upsert_org", !.stage = "main", !.extraWaitMs = FALSE]
ContentChecked(r) ==
  checkContent(trapDetector, r.url, r.fetchResult.html, Len(r.scrapeResult.classes)).td

\* fetchWithStealth threw.  In the initial fetch run rethrows; the
\* re-fetch is inside the planner's try block; retryWithHint catches
\* everything and run proceeds with what it has.
FetchThrew(r) ==
  CASE r.stage = "initial" -> Fail(r, "fetch")
    [] r.stage = "refetch" -> ToExtract(r)
    [] OTHER -> ToMainPersist(r)

\* A step of the run: r2 is the run after it, events are the sink events of
\* the step.  A step that ends in the call of upsertOrganization of the
\* main pipeline has passed stage 7, the content trap check.
PassOf(r) == IF r.stage = "retry" THEN "retry" ELSE "main"
SinkStep(r2, events) ==
  /\ run' = r2
  /\ upLog' = upLog \o events \o
       (IF r2.pc = "upsert_org" THEN <<Event("org", "call", PassOf(r2), <<>>, <<>>)>> ELSE <<>>)
  /\ trapDetector' = IF r2.pc = "upsert_org" /\ r2.stage = "main"
                       THEN ContentChecked(r2) ELSE trapDetector
RunStep(r2) == SinkStep(r2, <<>>)

\* The compliance gate: a disallowed url returns an empty result, an
\* allowed one takes its rate-limiter turn and goes on to the light
\* request or, when forced, to the browser.
FetchRobots ==
  /\ run.pc = "fetch_robots"
  /\ \E allowed \in BOOLEAN :
       RunStep(IF ~allowed THEN FetchReturned(run, FetchResult("", 0, "light", FALSE, 0))
               ELSE IF run.forceBrowser THEN [run EXCEPT !.pc = "fetch_borrow"]
               ELSE [run EXCEPT !.pc = "fetch_light"])
  /\ UNCHANGED <<sessionVars, callerVars, cfg, results>>

looksLikeRenderedSchedule(html) == HasTimeToken(html) /\ HasDayToken(html)

isPaywallResponse(statusCode) == statusCode = 402

\* A decision rule that takes every 200 body for a rendered schedule.
LightDecisionAnyBody(threw, statusCode, body) ==
  IF threw THEN "browser"
  ELSE IF isPaywallResponse(statusCode) THEN "paywall"
  ELSE IF statusCode = 200 THEN "light"
  ELSE "browser"

\* What fetchWithStealth does with the outcome of the light request
\* (threw = a transport error): return the paywall result, return the
\* body as the light result, or go on to the browser.
LightDecision(threw, statusCode, body) ==
  IF threw THEN "browser"
  ELSE IF isPaywallResponse(statusCode) THEN "paywall"
  ELSE IF statusCode = 200 /\ looksLikeRenderedSchedule(body) THEN "light"
  ELSE "browser"

\* The light request returned.
LightOutcome(r, threw, statusCode, body) ==
  CASE LightDecision(threw, statusCode, body) = "paywall" ->
         FetchReturned(r, FetchResult("", 402, "light", FALSE, 0))
    [] LightDecision(threw, statusCode, body) = "light" ->
         FetchReturned(r, FetchResult(body, statusCode, "light", FALSE, 0))
    [] OTHER -> [r EXCEPT !.pc = "fetch_borrow"]

FetchLight ==
  /\ run.pc = "fetch_light"
  /\ \E threw \in BOOLEAN, statusCode \in {200, 402, 500}, body \in RunHtmls :
       RunStep(LightOutcome(run, threw, statusCode, body))
  /\ UNCHANGED <<sessionVars, callerVars, cfg, results>>

\* borrowPage: a new context and page, the login monitor attached, the
\* saved cookies loaded.
FetchBorrow ==
  /\ run.pc = "fetch_borrow"
  /\ RunStep([run EXCEPT !.pc = "fetch_goto", !.contexts = Append(@, "open")])
  /\ loadSavedCookies
  /\ UNCHANGED <<loginInProgress, gates, gateResolve, logins, cookieFile,
                 callerVars, cfg, results>>

\* page.goto and the capture of the html.
GotoOutcome(r, threw, statusCode, html) ==
  LET c == Len(r.contexts)
  IN IF threw THEN FetchThrew(CloseContext(r, c))
     ELSE IF isPaywallResponse(statusCode)
       THEN FetchReturned(CloseContext(r, c), FetchResult("", 402, "browser", FALSE, 0))
     ELSE FetchReturned(r, FetchResult(html, statusCode, "browser", TRUE, c))

FetchGoto ==
  /\ run.pc = "fetch_goto"
  /\ \E threw \in BOOLEAN, statusCode \in {200, 402}, html \in RunHtmls :
       RunStep(GotoOutcome(run, threw, statusCode, html))
  /\ UNCHANGED <<sessionVars, callerVars, cfg, results>>

\* The response listener of a page of the run sees a logout signal: a
\* 401/403 response or a redirect to a login page, of the navigation or of
\* a request the page makes afterwards.
PageResponse ==
  /\ \E c \in 1..Len(run.contexts) : run.contexts[c] = "open"
  /\ Len(gates) <= MaxGates
  /\ onLoggedOut
  /\ UNCHANGED <<cookieFile, callerVars, cfg, scannerVars>>

\* ---------------------------------------------------------------------
\* GymScanner.run, stage 4
\* ---------------------------------------------------------------------
\* planNavigation returned (or threw, which the try block of stage 4
\* swallows).
PlanOutcome(r, threw, plan) ==
  IF threw THEN ToExtract(r)
  ELSE IF plan.authWallDetected THEN [r EXCEPT !.plan = plan, !.pc = "loginwall"]
  ELSE IF plan.loadMoreSelector THEN [ToExtract(r) EXCEPT !.pc = "loadmore"]
  ELSE ToExtract(r)

PlanReturn ==
  /\ run.pc = "plan"
  /\ \E threw \in BOOLEAN, authWall \in BOOLEAN, loadMore \in BOOLEAN :
       RunStep(PlanOutcome(run, threw,
                 [authWallDetected |-> authWall, loadMoreSelector |-> loadMore]))
  /\ UNCHANGED <<sessionVars, callerVars, cfg, results>>

\* checkForLoginWall: the password probe returned.  With a password field
\* onLoggedOut is awaited: a suppressed call returns at once, a login that
\* starts is awaited to its end.  Then line 131 waits for the gate.
LoginWallProbe ==
  /\ run.pc = "loginwall"
  /\ \E password \in BOOLEAN :
       IF password /\ ~OnLoggedOutSuppressed
         THEN /\ Len(gates) <= MaxGates
              /\ onLoggedOut
              /\ RunStep([run EXCEPT !.pc = "await_login", !.login = Len(logins) + 1])
         ELSE /\ RunStep(AfterWait(run, sessionGate, GateState(sessionGate)))
              /\ UNCHANGED <<currentState, loginInProgress, gates, gateResolve, logins>>
  /\ UNCHANGED <<cookieFile, callerVars, cfg, results>>

\* Lines 133-136: the old context is closed, then the forced re-fetch.
RefetchClose ==
  /\ run.pc = "refetch_close"
  /\ RunStep(BeginFetch(CloseContext(run, run.fetchResult.context), "refetch", TRUE, FALSE))
  /\ UNCHANGED <<sessionVars, callerVars, cfg, results>>

\* Lines 141-153: the load-more click; on success the html is re-captured.
LoadMore ==
  /\ run.pc = "loadmore"
  /\ \/ RunStep([run EXCEPT !.pc = "extract"])
     \/ \E html \in RunHtmls :
          RunStep([run EXCEPT !.pc = "extract", !.fetchResult.html = html])
  /\ UNCHANGED <<sessionVars, callerVars, cfg, results>>

\* ---------------------------------------------------------------------
\* GymScanner.run, stages 5 and 6, and retryWithHint
\* ---------------------------------------------------------------------
ExtractOutcome(r, threw) ==
  IF threw THEN Fail(CloseContext(r, r.fetchResult.context), "extract")
  ELSE [r EXCEPT !.pc = "validate", !.scrapeResult = Extract(r.fetchResult.html, r.url)]

ExtractReturn ==
  /\ run.pc = "extract"
  /\ \E threw \in BOOLEAN : RunStep(ExtractOutcome(run, threw))
  /\ UNCHANGED <<sessionVars, callerVars, cfg, results>>

\* Options that leave the pagination retry on the light path.
RetryOptionsLightForPagination(hint) ==
  CASE hint = "switch-to-browser" -> [forceBrowser |-> TRUE, extraWaitMs |-> FALSE]
    [] hint = "wait-longer" -> [forceBrowser |-> TRUE, extraWaitMs |-> TRUE]
    [] hint = "paginate-forward" -> [forceBrowser |-> FALSE, extraWaitMs |-> FALSE]
    [] hint = "re-authenticate" -> [forceBrowser |-> TRUE, extraWaitMs |-> FALSE]

\* The options retryWithHint passes to runWithOptions for each hint.
RetryOptions(hint) ==
  CASE hint = "switch-to-browser" -> [forceBrowser |-> TRUE, extraWaitMs |-> FALSE]
    [] hint = "wait-longer" -> [forceBrowser |-> TRUE, extraWaitMs |-> TRUE]
    [] hint = "paginate-forward" -> [forceBrowser |-> TRUE, extraWaitMs |-> FALSE]
    [] hint = "re-authenticate" -> [forceBrowser |-> TRUE, extraWaitMs |-> FALSE]

\* retryWithHint calls runWithOptions, which starts with the fetch.
retryWithHint(r, hint) ==
  BeginFetch(r, "retry", RetryOptions(hint).forceBrowser, RetryOptions(hint).extraWaitMs)

\* Lines 186-214: the validator's verdict, the context is closed, and
\* either the retry or the rest of the pipeline follows.
ValidateOutcome(r, page) ==
  LET v == validateExtraction(r.scrapeResult, page, r.fetchResult.html)
      r1 == [CloseContext(r, r.fetchResult.context) EXCEPT !.validation = v, !.validated = TRUE]
  IN IF ~v.valid /\ v.retryHint # NoHint THEN retryWithHint(r1, v.retryHint)
     ELSE ToMainPersist(r1)

Validate ==
  /\ run.pc = "validate"
  /\ \E password \in BOOLEAN, nextButton \in BOOLEAN :
       RunStep(ValidateOutcome(run,
         IF run.fetchResult.page
           THEN LivePage(ContextOpen(run, run.fetchResult.context), password, nextButton)
           ELSE NoPage))
  /\ UNCHANGED <<sessionVars, callerVars, cfg, results>>

\* runWithOptions lines 352-358: the extra settle wait and the re-capture.
RetryWait ==
  /\ run.pc = "retry_wait"
  /\ \/ RunStep(ToMainPersist(run))
     \/ \E html \in RunHtmls :
          RunStep([run EXCEPT !.pc = "retry_extract", !.retryFetch.html = html])
  /\ UNCHANGED <<sessionVars, callerVars, cfg, results>>

\* runWithOptions lines 360-369: extract, then the context is closed.
RetryExtractOutcome(r, threw) ==
  IF threw THEN ToMainPersist(r)
  ELSE [CloseContext(r, r.retryFetch.context) EXCEPT
          !.pc = "upsert_org",
          !.retryScrape = Extract(r.retryFetch.html, r.url)]

RetryExtract ==
  /\ run.pc = "retry_extract"
  /\ \E threw \in BOOLEAN : RunStep(RetryExtractOutcome(run, threw))
  /\ UNCHANGED <<sessionVars, callerVars, cfg, results>>

\* ---------------------------------------------------------------------
\* Stages 7 and 8 of run, and the same lines of runWithOptions
\* ---------------------------------------------------------------------
\* A normalize that hands on the failed result instead of the raw string.
safeNormalizeDroppingRaw(raw, timezone) ==
  normalizeDateTime(raw, timezone, CurrentWeekday).value

safeNormalize(raw, timezone) ==
  LET n == normalizeDateTime(raw, timezone, CurrentWeekday)
  IN IF n.ok THEN n.value ELSE raw

LocationsWithTimezone(locations, gymTimezone) ==
  [i \in 1..Len(locations) |->
     [locations[i] EXCEPT !.timezone = IF @ # "UTC" THEN @ ELSE gymTimezone]]

NormalizedClasses(classes, gymTimezone) ==
  [i \in 1..Len(classes) |->
     [classes[i] EXCEPT !.startTime = safeNormalize(@, gymTimezone)]]

\* The ids upsertLocations returns, in the order of the rows.
LocationIds(locations) == [i \in 1..Len(locations) |-> LocationId(locations[i].name)]

DefaultLocationId(ids) == IF ids = <<>> THEN NoLocation ELSE ids[1]

ClassesWithFks(classes, ids) ==
  [i \in 1..Len(classes) |->
     [classes[i] EXCEPT !.locationId =
        IF @ # NoLocation THEN @ ELSE DefaultLocationId(ids)]]

\* The extraction result the pass persists.
PassScrape(r) == IF r.stage = "retry" THEN r.retryScrape ELSE r.scrapeResult

\* A sink call of the pass threw: retryWithHint swallows it and run
\* proceeds with its own data; in run it is fatal.
UpsertThrew(r) == IF r.stage = "retry" THEN ToMainPersist(r) ELSE Fail(r, "persist")

\* A pass that goes on to the locations whatever the organization upsert did.
AfterOrganizationIgnoringFailure(r, ok) == [r EXCEPT !.pc = "upsert_loc"]

\* After upsertOrganization the pass calls upsertLocations.
AfterOrganization(r, ok) ==
  IF ok THEN [r EXCEPT !.pc = "upsert_loc"] ELSE UpsertThrew(r)

UpsertOrganization ==
  /\ run.pc = "upsert_org"
  /\ \E ok \in BOOLEAN :
       LET r2 == AfterOrganization(run, ok)
       IN SinkStep(r2,
            <<Event("org", IF ok THEN "ok" ELSE "fail", PassOf(run), <<>>, <<>>)>> \o
            (IF r2.pc = "upsert_loc"
               THEN <<Event("loc", "call", PassOf(run), <<>>, <<>>)>> ELSE <<>>))
  /\ UNCHANGED <<sessionVars, callerVars, cfg, results>>

\* upsertLocations returns an empty map for no locations without a
\* request; then the pass calls upsertClasses with the classes and their
\* foreign keys.
AfterLocations(r, ok) ==
  IF ok THEN [r EXCEPT !.pc = "upsert_cls"] ELSE UpsertThrew(r)

UpsertLocations ==
  /\ run.pc = "upsert_loc"
  /\ \E ok \in BOOLEAN :
       /\ PassScrape(run).locations = <<>> => ok
       /\ LET ids == LocationIds(LocationsWithTimezone(PassScrape(run).locations, run.timezone))
              handed == ClassesWithFks(
                          NormalizedClasses(PassScrape(run).classes, run.timezone), ids)
              r2 == AfterLocations(run, ok)
          IN SinkStep(r2,
               <<Event("loc", IF ok THEN "ok" ELSE "fail", PassOf(run), <<>>,
                       IF ok THEN ids ELSE <<>>)>> \o
               (IF r2.pc = "upsert_cls"
                  THEN <<Event("cls", "call", PassOf(run), handed, <<>>)>> ELSE <<>>))
  /\ UNCHANGED <<sessionVars, callerVars, cfg, results>>

\* upsertClasses returns 0 for no classes without a request, else the
\* number of rows; its result is the run's result in either pass.
AfterClasses(r, ok) ==
  IF ok THEN [r EXCEPT !.pc = "done", !.classesUpserted = Len(PassScrape(r).classes)]
  ELSE UpsertThrew(r)

UpsertClasses ==
  /\ run.pc = "upsert_cls"
  /\ \E ok \in BOOLEAN :
       /\ PassScrape(run).classes = <<>> => ok
       /\ SinkStep(AfterClasses(run, ok),
            <<Event("cls", IF ok THEN "ok" ELSE "fail", PassOf(run), <<>>, <<>>)>>)
  /\ UNCHANGED <<sessionVars, callerVars, cfg, results>>

\* ---------------------------------------------------------------------
\* The fetch layer under overlapping calls: fetchWithStealth with the
\* robots cache, the per-host page limiter and the BrowserManager
\* ---------------------------------------------------------------------
\* A call of fetchWithStealth by one of the overlapping run() invocations:
\* where it is (pc), its arguments, the light response it got, the engine
\* ensureBrowser gave it, its browser context and the result it returned.
IdleFetcher ==
  [pc |-> "idle", url |-> Schedule, forceBrowser |-> FALSE,
   light |-> [issued |-> FALSE, threw |-> FALSE, statusCode |-> 0, body |-> ""],
   engine |-> 0, context |-> "none", result |-> NoFetch]

\* The call leaves isAllowedByRobots: a disallowed url returns the empty
\* result, an allowed one queues at the limiter of its host
\* (limiter.schedule).
AfterRobots(f, fs, allowed, n) ==
  LET host == fs[f].url.host
  IN IF allowed
       THEN /\ fetchers' = [fs EXCEPT ![f].pc = "limiter"]
            /\ net' = [n EXCEPT !.limiters =
                         MapSet(@, host, Append(MapGet(@, host, <<>>), f))]
       ELSE /\ fetchers' = [fs EXCEPT ![f].pc = "returned",
                              ![f].result = FetchResult("", 0, "light", FALSE, 0)]
            /\ net' = n

\* fetchWithStealth(url, {forceBrowser}) up to its first await: the robots
\* policy of the host is read from the cache, or requested.
FsCall(f, u, force) ==
  LET host == u.host
      cached == MapGet(net.robotsCache, host, "none")
      mine == [IdleFetcher EXCEPT !.url = u, !.forceBrowser = force]
      n == [net EXCEPT !.calls = @ + 1]
  IN /\ UNCHANGED <<sessionVars, callerVars, cfg, scannerVars>>
     /\ fetchers[f].pc = "idle"
     /\ net.calls < MaxCalls
     /\ IF cached = "none"
          THEN /\ fetchers' = [fetchers EXCEPT ![f] = [mine EXCEPT !.pc = "robots"]]
               /\ net' = [n EXCEPT !.robotsRequests =
                            MapSet(@, host, MapGet(@, host, 0) + 1)]
          ELSE AfterRobots(f, [fetchers EXCEPT ![f] = mine], cached = "allow", n)

\* The request for robots.txt returned: a 200 is parsed and cached, any
\* other status and a thrown request cache nothing and allow.
FsRobotsResponse(f) ==
  /\ UNCHANGED <<sessionVars, callerVars, cfg, scannerVars>>
  /\ fetchers[f].pc = "robots"
  /\ \E threw \in BOOLEAN, statusCode \in {200, 404}, allowed \in BOOLEAN :
       IF ~threw /\ statusCode = 200
         THEN AfterRobots(f, fetchers, allowed,
                [net EXCEPT !.robotsCache =
                   MapSet(@, fetchers[f].url.host, IF allowed THEN "allow" ELSE "disallow")])
         ELSE AfterRobots(f, fetchers, TRUE, net)

\* The limiter runs the call's job, () => Promise.resolve(), when it is
\* first in the queue of its host; the job is done at once, and the call
\* goes on to issue the light request or, when forced, to the browser.
FsLimiterTurn(f) ==
  LET host == fetchers[f].url.host
  IN /\ UNCHANGED <<sessionVars, callerVars, cfg, scannerVars>>
     /\ fetchers[f].pc = "limiter"
     /\ Head(net.limiters[host]) = f
     /\ net' = [net EXCEPT !.limiters = MapSet(@, host, Tail(@[host]))]
     /\ fetchers' = IF fetchers[f].forceBrowser
                      THEN [fetchers EXCEPT ![f].pc = "ensure"]
                      ELSE [fetchers EXCEPT ![f].pc = "light", ![f].light.issued = TRUE]

\* The light request returned.
FsLightResponse(f) ==
  /\ UNCHANGED <<sessionVars, callerVars, cfg, scannerVars>>
  /\ fetchers[f].pc = "light"
  /\ \E threw \in BOOLEAN, statusCode \in {200, 402, 500},
        body \in {"shell", "sched3", "times", "days"} :
       LET got == [issued |-> TRUE, threw |-> threw,
                   statusCode |-> IF threw THEN 0 ELSE statusCode,
                   body |-> IF threw \/ statusCode # 200 THEN "" ELSE body]
           d == LightDecision(threw, statusCode, body)
       IN fetchers' =
            [fetchers EXCEPT ![f] =
               CASE d = "paywall" ->
                      [@ EXCEPT !.light = got, !.pc = "returned",
                                !.result = FetchResult("", 402, "light", FALSE, 0)]
                 [] d = "light" ->
                      [@ EXCEPT !.light = got, !.pc = "returned",
                                !.result = FetchResult(body, statusCode, "light", FALSE, 0)]
                 [] OTHER -> [@ EXCEPT !.light = got, !.pc = "ensure"]]
  /\ UNCHANGED net

\* borrowPage -> ensureBrowser up to its await: with no engine, or a
\* disconnected one, puppeteer.launch is called; with a connected one the
\* call gets it, opens a context and a page and starts the navigation.
FsEnsureBrowser(f) ==
  /\ UNCHANGED <<sessionVars, callerVars, cfg, scannerVars>>
  /\ fetchers[f].pc = "ensure"
  /\ IF net.browser = 0 \/ ~net.connected
       THEN /\ net' = [net EXCEPT !.launches = @ + 1]
            /\ fetchers' = [fetchers EXCEPT ![f].pc = "launching",
                                            ![f].engine = net.launches + 1]
       ELSE /\ fetchers' = [fetchers EXCEPT ![f].pc = "goto", ![f].engine = net.browser,
                                            ![f].context = "open"]
            /\ UNCHANGED net

\* puppeteer.launch resolved: this.browser is the engine just launched,
\* and ensureBrowser returns it.
FsLaunched(f) ==
  /\ UNCHANGED <<sessionVars, callerVars, cfg, scannerVars>>
  /\ fetchers[f].pc = "launching"
  /\ net' = [net EXCEPT !.browser = fetchers[f].engine, !.connected = TRUE]
  /\ fetchers' = [fetchers EXCEPT ![f].pc = "goto", ![f].context = "open"]

\* page.goto and the capture of the html: a thrown navigation closes the
\* context and rethrows, a 402 closes the context and returns the paywall
\* result, anything else returns the html with the page and the context.
FsGoto(f) ==
  /\ UNCHANGED <<sessionVars, callerVars, cfg, scannerVars>>
  /\ fetchers[f].pc = "goto"
  /\ \E threw \in BOOLEAN, statusCode \in {200, 402}, html \in {"sched3"} :
       fetchers' =
         [fetchers EXCEPT ![f] =
            IF threw THEN [@ EXCEPT !.pc = "threw", !.context = "closed"]
            ELSE IF isPaywallResponse(statusCode)
              THEN [@ EXCEPT !.pc = "returned", !.context = "closed",
                             !.result = FetchResult("", 402, "browser", FALSE, 0)]
            ELSE [@ EXCEPT !.pc = "returned",
                           !.result = FetchResult(html, statusCode, "browser", TRUE, 1)]]
  /\ UNCHANGED net

\* The caller is done with the result: it closes the context it was
\* handed, and may call again.
FsDispose(f) ==
  /\ UNCHANGED <<sessionVars, callerVars, cfg, scannerVars>>
  /\ fetchers[f].pc \in {"returned", "threw"}
  /\ fetchers' = [fetchers EXCEPT ![f] = IdleFetcher]
  /\ UNCHANGED net

\* The engine process dies or loses its connection.
FsDisconnect ==
  /\ UNCHANGED <<sessionVars, callerVars, cfg, scannerVars>>
  /\ net.browser # 0 /\ net.connected
  /\ ~net.disconnected
  /\ net' = [net EXCEPT !.connected = FALSE, !.disconnected = TRUE]
  /\ UNCHANGED fetchers

\* clearRobotsCache(): the cache is emptied; the count of requests starts
\* again.
clearRobotsCache ==
  /\ UNCHANGED <<sessionVars, callerVars, cfg, scannerVars>>
  /\ net.robotsCache # EmptyMap
  /\ net' = [net EXCEPT !.robotsCache = EmptyMap, !.robotsRequests = EmptyMap]
  /\ UNCHANGED fetchers

\* ---------------------------------------------------------------------
\* The trap detector under direct calls
\* ---------------------------------------------------------------------
\* The urls the detector is asked about: the schedule page, a second page
\* of its host, a string new URL() rejects, paths with a segment two and
\* three times, eight and nine query parameters, and long segments: 20
\* distinct characters (4.322 bits), 32 characters of 16 kinds (4.0 bits)
\* and 32 distinct characters (5.0 bits).
TrapUrls ==
  {Schedule, Labyrinth,
   Url("https://gym.example/classes", TRUE, "gym.example", <<Seg("classes", 7, 2236)>>, 0),
   Url("not a url", FALSE, "", <<>>, 0),
   Url("https://gym.example/p/p", TRUE, "gym.example", <<Seg("p", 1, 0), Seg("p", 1, 0)>>, 0),
   Url("https://gym.example/p/q/p/p", TRUE, "gym.example",
       <<Seg("p", 1, 0), Seg("q", 1, 0), Seg("p", 1, 0), Seg("p", 1, 0)>>, 0),
   Url("https://gym.example/s?8", TRUE, "gym.example", <<Seg("s", 1, 0)>>, 8),
   Url("https://gym.example/s?9", TRUE, "gym.example", <<Seg("s", 1, 0)>>, 9),
   Url("https://gym.example/len20", TRUE, "gym.example", <<Seg("len20", 20, 4322)>>, 0),
   Url("https://gym.example/flat32", TRUE, "gym.example", <<Seg("flat32", 32, 4000)>>, 0),
   Url("https://gym.example/rand32", TRUE, "gym.example", <<Seg("rand32", 32, 5000)>>, 0)}

\* The pages whose content is checked, and the bodies they serve.
ContentUrls == {u \in TrapUrls : u.id \in {Schedule.id, "https://gym.example/classes"}}
TrapContents == {"shell", "sched3", "times", "days", "two", "filler"}

\* seq is the place of the call in a checkUrl(u), checkContent(u, ..),
\* checkUrl(u) sequence of consecutive calls: 1, 2, 3, or 0 for a call
\* that is in no such sequence.
NoCheck == [op |-> "none", url |-> Schedule, safe |-> TRUE, seq |-> 0]

CheckUrlCall(u) ==
  /\ lastCheck' = [op |-> "checkUrl", url |-> u, safe |-> checkUrl(trapDetector, u).safe,
                   seq |-> IF lastCheck.seq = 2 /\ lastCheck.url = u THEN 3 ELSE 1]
  /\ UNCHANGED <<sessionVars, callerVars, cfg, trapDetector, run, results, upLog,
                 fetchers, net, direct, week, proc>>

CheckContentCall(u, content, classCount) ==
  LET c == checkContent(trapDetector, u, content, classCount)
  IN /\ trapDetector' = c.td
     /\ lastCheck' = [op |-> "checkContent", url |-> u, safe |-> c.safe,
                      seq |-> IF lastCheck.op = "checkUrl" /\ lastCheck.url = u
                                THEN 2 ELSE 0]
     /\ UNCHANGED <<sessionVars, callerVars, cfg, run, results, upLog, fetchers, net,
                 direct, week, proc>>

DropKey(map, key) == [k \in DOMAIN map \ {key} |-> map[k]]

resetDomainKeepingDepth(hostname) ==
  /\ trapDetector' = [trapDetector EXCEPT !.visitedUrls = DropKey(@, hostname),
                                           !.contentHashes = DropKey(@, hostname)]
  /\ lastCheck' = [NoCheck EXCEPT !.op = "resetDomain"]
  /\ UNCHANGED <<sessionVars, callerVars, cfg, run, results, upLog, fetchers, net,
                 direct, week, proc>>

resetDomain(hostname) ==
  /\ trapDetector' = [trapDetector EXCEPT !.visitedUrls = DropKey(@, hostname),
                                           !.contentHashes = DropKey(@, hostname),
                                           !.depthCounters = DropKey(@, hostname)]
  /\ lastCheck' = [NoCheck EXCEPT !.op = "resetDomain"]
  /\ UNCHANGED <<sessionVars, callerVars, cfg, run, results, upLog, fetchers, net,
                 direct, week, proc>>

resetAll ==
  /\ trapDetector' = [trapDetector EXCEPT !.visitedUrls = EmptyMap,
                                           !.contentHashes = EmptyMap,
                                           !.depthCounters = EmptyMap]
  /\ lastCheck' = [NoCheck EXCEPT !.op = "resetAll"]
  /\ UNCHANGED <<sessionVars, callerVars, cfg, run, results, upLog, fetchers, net,
                 direct, week, proc>>

\* ---------------------------------------------------------------------
\* The library functions under direct calls
\* ---------------------------------------------------------------------
\* One call is followed from the state the process starts in.
ValidateCall(result, page, html) ==
  /\ direct.fn = "none"
  /\ direct' = [fn |-> "validateExtraction", result |-> result, page |-> page,
                html |-> html, out |-> validateExtraction(result, page, html)]
  /\ UNCHANGED <<sessionVars, callerVars, cfg, trapDetector, run, results, upLog,
                 fetchers, net, lastCheck, week, proc>>

\* Stage 7 of a pass on the locations and classes of an extraction.
NormaliseStage(locations, classes, gymTimezone) ==
  /\ direct.fn = "none"
  /\ direct' = [fn |-> "normalise", locations |-> locations, classes |-> classes,
                gymTimezone |-> gymTimezone,
                locationsWithTimezone |-> LocationsWithTimezone(locations, gymTimezone),
                normalizedClasses |-> NormalizedClasses(classes, gymTimezone)]
  /\ UNCHANGED <<sessionVars, callerVars, cfg, trapDetector, run, results, upLog,
                 fetchers, net, lastCheck, week, proc>>

\* loadSavedCookies called on a page, with the store on disk at the age
\* its freshness allows.
LoadSavedCookiesCall(ageHours, setCookieThrew) ==
  /\ direct.fn = "none"
  /\ cookieFile = "fresh" => ageHours <= COOKIE_TTL_HOURS
  /\ cookieFile = "stale" => ageHours > COOKIE_TTL_HOURS
  /\ LET store == IF cookieFile \in {"fresh", "stale"} THEN "saved" ELSE cookieFile
         out == loadSavedCookiesResult(store, ageHours, COOKIE_TTL_HOURS, setCookieThrew,
                                       currentState)
     IN /\ currentState' = out.currentState
        /\ direct' = [fn |-> "loadSavedCookies", store |-> store, ageHours |-> ageHours,
                      setCookieThrew |-> setCookieThrew,
                      before |-> [currentState |-> currentState, sessionGate |-> sessionGate,
                                  gates |-> gates, loginInProgress |-> loginInProgress],
                      after |-> [currentState |-> currentState', sessionGate |-> sessionGate,
                                 gates |-> gates, loginInProgress |-> loginInProgress],
                      out |-> out]
  /\ UNCHANGED <<loginInProgress, gates, gateResolve, logins, cookieFile, callerVars, cfg,
                 trapDetector, run, results, upLog, fetchers, net, lastCheck, week, proc>>

AnalyseCall(requests) ==
  /\ direct.fn = "none"
  /\ direct' = [fn |-> "analyseInterceptedRequests", requests |-> requests,
                out |-> analyseInterceptedRequests(requests)]
  /\ UNCHANGED <<sessionVars, callerVars, cfg, trapDetector, run, results, upLog,
                 fetchers, net, lastCheck, week, proc>>

\* normalizeDateTime(raw, timezone, refDate) with a reference date on
\* weekday currentWeekday; a second call is given the string the first
\* returned (prev is the first call's result).
NormalizeCall(raw, timezone, currentWeekday) ==
  /\ \/ direct.fn = "none"
     \/ direct.fn = "normalizeDateTime" /\ ~direct.prev.ok /\ raw = direct.out.value
  /\ direct' = [fn |-> "normalizeDateTime", raw |-> raw, timezone |-> timezone,
                currentWeekday |-> currentWeekday,
                prev |-> IF direct.fn = "none" THEN NormFail ELSE direct.out,
                out |-> normalizeDateTime(raw, timezone, currentWeekday)]
  /\ UNCHANGED <<sessionVars, callerVars, cfg, trapDetector, run, results, upLog,
                 fetchers, net, lastCheck, week, proc>>

\* ---------------------------------------------------------------------
\* fetchWeekParallel
\* ---------------------------------------------------------------------
FetchWeekParallelCall(pattern, weekStartDate) ==
  /\ week.pc = "idle"
  /\ week' = WeekCall(pattern, weekStartDate)
  /\ UNCHANGED <<sessionVars, callerVars, cfg, trapDetector, run, results, upLog,
                 fetchers, net, lastCheck, direct, proc>>

\* The limiter starts the oldest queued job: at most three run at a time
\* and each start takes one unit of the reservoir.
WorkerStart(i) ==
  /\ week.pc = "awaiting"
  /\ week.jobs[i].status = "queued"
  /\ \A j \in 1..(i - 1) : week.jobs[j].status # "queued"
  /\ Cardinality({j \in 1..7 : week.jobs[j].status = "running"}) < 3
  /\ week.reservoir > 0
  /\ week' = [week EXCEPT !.jobs[i].status = "running", !.reservoir = @ - 1]
  /\ UNCHANGED <<sessionVars, callerVars, cfg, trapDetector, run, results, upLog,
                 fetchers, net, lastCheck, direct, proc>>

\* The reservoir is refilled every ten seconds.
ReservoirRefresh ==
  /\ week.pc = "awaiting"
  /\ week.reservoir < 5
  /\ week' = [week EXCEPT !.reservoir = 5]
  /\ UNCHANGED <<sessionVars, callerVars, cfg, trapDetector, run, results, upLog,
                 fetchers, net, lastCheck, direct, proc>>

\* The request of job i returned or threw (a url that does not parse
\* always throws) and fetchSingleDay returned.
WorkerReturn(i, response) ==
  /\ week.pc = "awaiting"
  /\ week.jobs[i].status = "running"
  /\ ~week.pattern.urlTemplate.parses => response.threw
  /\ week' = [week EXCEPT !.jobs[i] =
                [status |-> "fulfilled", response |-> response,
                 value |-> fetchSingleDay(week.pattern, week.dates[i], response)]]
  /\ UNCHANGED <<sessionVars, callerVars, cfg, trapDetector, run, results, upLog,
                 fetchers, net, lastCheck, direct, proc>>

\* Promise.allSettled settled: the results are mapped and returned.
FetchWeekParallelReturn ==
  /\ week.pc = "awaiting"
  /\ \A i \in 1..7 : week.jobs[i].status \in {"fulfilled", "rejected"}
  /\ week' = [week EXCEPT !.pc = "resolved",
                          !.results = [i \in 1..7 |->
                             IF week.jobs[i].status = "fulfilled" THEN week.jobs[i].value
                             ELSE [date |-> week.dates[i], success |-> FALSE,
                                   error |-> "Unknown error"]]]
  /\ UNCHANGED <<sessionVars, callerVars, cfg, trapDetector, run, results, upLog,
                 fetchers, net, lastCheck, direct, proc>>

\* ---------------------------------------------------------------------
\* Shutdown signals (BrowserManager.registerExitHooks)
\* ---------------------------------------------------------------------
\* ensureBrowser registers the hooks after it launched the browser, so
\* they exist once the run has borrowed a context.
ExitHooksRegistered == Len(run.contexts) > 0

\* SIGINT or SIGTERM arrives: with the hooks registered cleanup starts
\* (await this.close()), otherwise the default disposition ends the
\* process.
ShutdownSignal ==
  /\ proc.pc = "running"
  /\ proc' = [proc EXCEPT !.pc = IF ExitHooksRegistered THEN "cleanup" ELSE "exited"]
  /\ UNCHANGED <<sessionVars, callerVars, cfg, trapDetector, run, results, upLog,
                 fetchers, net, lastCheck, direct, week>>

\* The hooks are registered with process.once: the same signal arriving
\* again while close() is awaited meets no listener and ends the process.
SignalDuringCleanup ==
  /\ proc.pc = "cleanup"
  /\ proc' = [proc EXCEPT !.pc = "exited"]
  /\ UNCHANGED <<sessionVars, callerVars, cfg, trapDetector, run, results, upLog,
                 fetchers, net, lastCheck, direct, week>>

\* close() returned and cleanup calls process.exit(0).
CleanupExit ==
  /\ proc.pc = "cleanup"
  /\ proc' = [proc EXCEPT !.pc = "exited", !.browserClosed = TRUE]
  /\ UNCHANGED <<sessionVars, callerVars, cfg, trapDetector, run, results, upLog,
                 fetchers, net, lastCheck, direct, week>>

\* ---------------------------------------------------------------------
\* The specifications
\* ---------------------------------------------------------------------
\* The process after its modules are loaded and a GymScanner is
\* constructed, with the configuration and the cookie store it finds.
Constructed(cfgs, cookieFiles) ==
  /\ currentState = "unknown"
  /\ loginInProgress = FALSE
  /\ gates = <<"resolved">>
  /\ gateResolve = 0
  /\ logins = <<>>
  /\ cookieFile \in cookieFiles
  /\ callerPc = [c \in Callers |-> "idle"]
  /\ callerGate = [c \in Callers |-> 0]
  /\ cfg \in cfgs
  /\ trapDetector = [visitedUrls |-> EmptyMap, contentHashes |-> EmptyMap,
                     depthCounters |-> EmptyMap, maxDepth |-> 5]
  /\ run = IdleRun
  /\ results = <<>>
  /\ upLog = <<>>
  /\ fetchers = [f \in Callers |-> IdleFetcher]
  /\ net = [robotsCache |-> EmptyMap, robotsRequests |-> EmptyMap, limiters |-> EmptyMap,
            browser |-> 0, connected |-> FALSE, disconnected |-> FALSE, launches |-> 0,
            calls |-> 0]
  /\ lastCheck = NoCheck
  /\ direct = [fn |-> "none"]
  /\ week = [pc |-> "idle"]
  /\ proc = [pc |-> "running", browserClosed |-> FALSE, limitersDisconnected |-> FALSE]

LoginNext ==
  \/ \E t \in 1..MaxGates : LoginAttemptFails(t)
  \/ \E t \in 1..MaxGates : LoginAttemptSucceeds(t)
  \/ \E t \in 1..MaxGates : LoginSaved(t)

CallerNext ==
  \/ \E c \in Callers : CallerWait(c)
  \/ \E c \in Callers : CallerBorrow(c)
  \/ \E c \in Callers : CallerResponse(c)
  \/ \E c \in Callers : CallerLoginWall(c)
  \/ \E c \in Callers : CallerDone(c)

FetchNext ==
  \/ FetchRobots
  \/ FetchLight
  \/ FetchBorrow
  \/ FetchGoto

PlanNext ==
  \/ PlanReturn
  \/ LoginWallProbe
  \/ RefetchClose
  \/ LoadMore

PipelineNext ==
  \/ ExtractReturn
  \/ Validate
  \/ RetryWait
  \/ RetryExtract
  \/ UpsertOrganization
  \/ UpsertLocations
  \/ UpsertClasses

\* One run of a scanner and the session manager of its process, with a
\* planner key and a fresh cookie store (a run without the key is the run
\* whose planner call throws, a missing store is a store whose injection
\* fails).
Init ==
  Constructed([credentials : BOOLEAN, openaiApiKey : {TRUE}], {"fresh"})

Next ==
  \/ (\E u \in RunUrls, tz \in Timezones : Start(u, tz)) /\ UNCHANGED <<fetchers, net, lastCheck, direct, week, proc>>
  \/ FetchNext /\ UNCHANGED <<fetchers, net, lastCheck, direct, week, proc>>
  \/ PageResponse /\ UNCHANGED <<fetchers, net, lastCheck, direct, week, proc>>
  \/ PlanNext /\ UNCHANGED <<fetchers, net, lastCheck, direct, week, proc>>
  \/ PipelineNext /\ UNCHANGED <<fetchers, net, lastCheck, direct, week, proc>>
  \/ LoginNext /\ UNCHANGED <<fetchers, net, lastCheck, direct, week, proc>>

Spec == Init /\ [][Next]_vars

\* The session manager and the overlapping run() invocations.
SessionInit ==
  Constructed([credentials : BOOLEAN, openaiApiKey : {FALSE}], {"none", "fresh", "stale"})

SessionNext ==
  \/ CallerNext /\ UNCHANGED <<fetchers, net, lastCheck, direct, week, proc>>
  \/ LoginNext /\ UNCHANGED <<fetchers, net, lastCheck, direct, week, proc>>

SessionSpec == SessionInit /\ [][SessionNext]_vars

\* The event loop runs every continuation that is ready: a login that has
\* started goes on until onLoggedOut returns.
SessionFairSpec ==
  SessionSpec /\ WF_vars(LoginNext /\ UNCHANGED <<fetchers, net, lastCheck, direct, week, proc>>)

\* The runs of one scanner, one after another, with no planner key and a
\* site that raises no logout signal.
RerunInit ==
  Constructed([credentials : {FALSE}, openaiApiKey : {FALSE}], {"none", "fresh"})

RerunNext ==
  \/ (\E u \in RunUrls, tz \in Timezones : Start(u, tz)) /\ UNCHANGED <<fetchers, net, lastCheck, direct, week, proc>>
  \/ (\E u \in RunUrls, tz \in Timezones : Rerun(u, tz)) /\ UNCHANGED <<fetchers, net, lastCheck, direct, week, proc>>
  \/ FetchNext /\ UNCHANGED <<fetchers, net, lastCheck, direct, week, proc>>
  \/ PipelineNext /\ UNCHANGED <<fetchers, net, lastCheck, direct, week, proc>>

RerunSpec == RerunInit /\ [][RerunNext]_vars

\* The fetch layer of a process whose run() invocations, those in
\* callers, call fetchWithStealth for one url.  The session manager, which
\* the pages report to, is left to Spec and SessionSpec.
FetchLayerNext(callers) ==
  \/ \E f \in callers, force \in BOOLEAN : FsCall(f, Schedule, force)
  \/ \E f \in callers : FsRobotsResponse(f)
  \/ \E f \in callers : FsLimiterTurn(f)
  \/ \E f \in callers : FsLightResponse(f)
  \/ \E f \in callers : FsEnsureBrowser(f)
  \/ \E f \in callers : FsLaunched(f)
  \/ \E f \in callers : FsGoto(f)
  \/ \E f \in callers : FsDispose(f)
  \/ FsDisconnect
  \/ clearRobotsCache

\* The calls overlap.
FetchLayerSpec ==
  Constructed([credentials : {FALSE}, openaiApiKey : {FALSE}], {"none"})
    /\ [][FetchLayerNext(Callers)]_vars

\* The calls of one run() invocation, one after another.
FetchCallSpec ==
  Constructed([credentials : {FALSE}, openaiApiKey : {FALSE}], {"none"})
    /\ [][FetchLayerNext({1})]_vars
\* The trap detector of a scanner, called directly.
TrapNext ==
  \/ \E u \in TrapUrls : CheckUrlCall(u)
  \/ \E u \in ContentUrls, content \in TrapContents, classCount \in {0, 3} :
       CheckContentCall(u, content, classCount)
  \/ \E content \in {"sched3", "filler"}, classCount \in {0, 3} :
       CheckContentCall(Labyrinth, content, classCount)
  \/ \E u \in TrapUrls : resetDomain(extractHostname(u))
  \/ resetAll

TrapSpec ==
  Constructed([credentials : {FALSE}, openaiApiKey : {FALSE}], {"none"}) /\ [][TrapNext]_vars

\* One fetchWeekParallel call with a url pattern whose template parses or
\* not, for one of two weeks; each request answers 200 or 404, or throws.
WeekProgress ==
  \/ \E i \in 1..7 : WorkerStart(i)
  \/ ReservoirRefresh
  \/ \E i \in 1..7, response \in {[threw |-> FALSE, statusCode |-> 200],
                                    [threw |-> FALSE, statusCode |-> 404],
                                    [threw |-> TRUE, statusCode |-> 0]} :
       WorkerReturn(i, response)
  \/ FetchWeekParallelReturn

WeekNext ==
  \/ \E parses \in BOOLEAN, weekStartDate \in {1, 8} :
       FetchWeekParallelCall([urlTemplate |-> [parses |-> parses, placeholder |-> TRUE],
                              method |-> "GET", dateParam |-> "date",
                              bodyTemplate |-> FALSE, headers |-> {"accept"}],
                             weekStartDate)
  \/ WeekProgress

WeekSpec ==
  Constructed([credentials : {FALSE}, openaiApiKey : {FALSE}], {"none"}) /\ [][WeekNext]_vars

\* The limiter runs a queued job once a slot and a reservoir unit are
\* free, the reservoir is refilled on a timer, and every request returns
\* or throws within its 30 s timeout.
WeekFairSpec == WeekSpec /\ WF_vars(WeekProgress)

\* The command-line process: one run of a scanner without credentials,
\* and the shutdown signals.  The run goes on while cleanup awaits
\* close(); nothing runs after the process exited.
ShutdownNext ==
  \/ proc.pc # "exited" /\ results = <<>> /\ (\E tz \in Timezones : Start(Schedule, tz)) /\ UNCHANGED <<fetchers, net, lastCheck, direct, week, proc>>
  \/ proc.pc # "exited" /\ FetchNext /\ UNCHANGED <<fetchers, net, lastCheck, direct, week, proc>>
  \/ proc.pc # "exited" /\ PageResponse /\ UNCHANGED <<fetchers, net, lastCheck, direct, week, proc>>
  \/ proc.pc # "exited" /\ PlanNext /\ UNCHANGED <<fetchers, net, lastCheck, direct, week, proc>>
  \/ proc.pc # "exited" /\ PipelineNext /\ UNCHANGED <<fetchers, net, lastCheck, direct, week, proc>>
  \/ ShutdownSignal
  \/ SignalDuringCleanup
  \/ CleanupExit

ShutdownSpec ==
  Constructed([credentials : {FALSE}, openaiApiKey : {TRUE}], {"fresh"}) /\ [][ShutdownNext]_vars

\* The session manager with its callers, and one direct call of
\* loadSavedCookies at any point, with every kind of store.
CookieNext ==
  \/ CallerNext /\ UNCHANGED <<fetchers, net, lastCheck, direct, week, proc>>
  \/ LoginNext /\ UNCHANGED <<fetchers, net, lastCheck, direct, week, proc>>
  \/ \E ageHours \in {0, COOKIE_TTL_HOURS, COOKIE_TTL_HOURS + 1}, setCookieThrew \in BOOLEAN :
       LoadSavedCookiesCall(ageHours, setCookieThrew)

CookieSpec ==
  Constructed([credentials : BOOLEAN, openaiApiKey : {FALSE}],
              {"none", "corrupt", "fresh", "stale"}) /\ [][CookieNext]_vars

\* The library functions called directly: the validator with extraction
\* results of up to five classes (plain, garbled and repeated ones), with
\* and without a live page; the normalizer with every day name, today,
\* tomorrow, an unmapped word and no word, 12- and 24-hour times, on every
\* reference weekday, and with its own output; the request analysis with
\* one captured request that carries up to two headers; the normalise
\* stage with one location, in UTC or a zone of its own, and its classes.
LibraryNext ==
  \/ \E n \in 0..5 :
       \E classes \in [1..n -> {Class("Yoga", Mon6pm), Class("Spin", Tue9am),
                                Class("<div>", Mon6pm)}],
          page \in {NoPage} \cup {LivePage(o, pw, nx) : o, pw, nx \in BOOLEAN},
          html \in {"sched3", "wall"} :
         ValidateCall([NoScrape EXCEPT !.classes = classes], page, html)
  \/ \E word \in {"", "today", "tomorrow", "tonight", "monday", "tue", "wednesday",
                   "thu", "friday", "sat", "sunday"},
        hour \in {9, 12, 23}, minute \in {-1, 30}, mer \in {"", "AM", "PM"},
        timezone \in {"UTC", "America/New_York"}, currentWeekday \in 1..7 :
       \/ NormalizeCall(RawTime(word, hour, minute, mer), timezone, currentWeekday)
       \/ NormalizeCall(IsoTime(currentWeekday - 1, hour, 30), timezone, currentWeekday)
  \/ /\ direct.fn = "normalizeDateTime" /\ direct.out.ok
     /\ NormalizeCall(direct.out.value, direct.timezone, direct.currentWeekday)
  \/ \E timezone \in {"UTC", "America/New_York", "America/Chicago"},
        gymTimezone \in {"UTC", "America/New_York"},
        classes \in {<<Class("Yoga", Mon6pm)>>, <<Class("Yoga", Mon6pm), Class("Spin", Pm99)>>} :
       NormaliseStage(<<Loc("Main", timezone)>>, classes, gymTimezone)
  \/ \E parses \in BOOLEAN, date \in {"none", "param", "path"}, method \in {"GET", "POST"},
        postData \in {"none", "text", "json", "json-dated"},
        headers \in {h \in SUBSET {"host", "content-length", "transfer-encoding",
                                   "connection", "Cookie", "sec-fetch-site",
                                   "sec-fetch-mode", "Sec-Fetch-Dest", "sec-fetch-user",
                                   "accept", "authorization", "X-Requested-With"} :
                        Cardinality(h) <= 2} :
       AnalyseCall(<<[url |-> [parses |-> parses, date |-> date], method |-> method,
                      postData |-> postData, headers |-> headers]>>)

LibrarySpec ==
  Constructed([credentials : {FALSE}, openaiApiKey : {FALSE}], {"none"})
    /\ [][LibraryNext]_vars

\* =====================================================================
\* Properties
\* =====================================================================
PendingGates == {g \in 1..Len(gates) : gates[g] = "pending"}

\* C1: at any moment at most one login task is active, and a logout signal
\* that arrives while a login runs starts no second login and does not
\* replace the pending gate: there is at most one pending gate, it is the
\* current sessionGate, and it is the one the stored resolve/reject settle.
C1_SingleLogin ==
  /\ Cardinality(ActiveLogins) <= 1
  /\ Cardinality(PendingGates) <= 1
  /\ \A g \in PendingGates : g = sessionGate /\ g = gateResolve /\ loginInProgress

\* Two pages have seen a logout signal while the one login they caused is
\* still running, at the point where only the flag holds the guard.
C1_Witness ==
  /\ \A c \in Callers : c <= 2 => callerPc[c] = "signalled"
  /\ Len(logins) = 1
  /\ logins[1].pc = "saving"
  /\ currentState = "logged-in"

\* C2: every caller parked on the gate is eventually resumed; the callers
\* parked on one gate leave it together, continuing when the login has
\* succeeded and receiving the error when it has failed.
C2_ParkedCallersResumed ==
  /\ \A c \in Callers :
        (callerPc[c] = "parked") ~> (callerPc[c] \in {"resumed", "rejected"})
  /\ [][\A c \in Callers :
          (callerPc[c] = "parked" /\ callerPc'[c] # "parked") =>
            /\ gates[callerGate[c]] = "pending"
            /\ callerPc'[c] = (IF gates'[callerGate[c]] = "resolved" THEN "resumed"
                                                                      ELSE "rejected")
            /\ callerPc'[c] = (IF currentState' = "logged-in" THEN "resumed"
                                                               ELSE "rejected")
            /\ \A d \in Callers :
                  (callerPc[d] = "parked" /\ callerGate[d] = callerGate[c]) =>
                    callerPc'[d] = callerPc'[c]]_vars

\* Two callers that were parked on the same gate have been resumed.
C2_Witness ==
  \E c, d \in Callers :
    /\ c # d
    /\ callerPc[c] = "resumed" /\ callerPc[d] = "resumed"
    /\ callerGate[c] = callerGate[d]

\* C3: no fetchWithStealth call of the run starts while the session gate is
\* pending.
C3_NoFetchWhileGateClosed ==
  [][(run'.pc = "fetch_robots" /\ run.pc # "fetch_robots") =>
       gates'[Len(gates')] # "pending"]_vars

\* C4: a run in which a wait for the gate was rejected (the login had
\* exhausted its attempts) does not succeed and issues no upsert.
C4_LoginFailureEndsRun ==
  run.gateRejected => (run.pc # "done" /\ upLog = <<>>)

\* C5: once a fetch of the run has returned status 402, the run has failed
\* with the paywall error; it is in no later stage.
C5_PaywallSurfaced ==
  (run.fetchResult.statusCode = 402 \/ run.retryFetch.statusCode = 402) =>
    (run.pc = "failed" /\ run.err = "paywall")

FetchPcs == {"fetch_robots", "fetch_light", "fetch_borrow", "fetch_goto"}

\* C6: a run retries exactly when its validation was invalid with a hint,
\* and then once; the retry fetch is forced to the browser whatever the
\* hint; validation runs once, before any retry, never on the retry.
C6_SingleForcedRetry ==
  /\ run.retries <= 1
  /\ run.retries = 1 <=>
       (run.validated /\ ~run.validation.valid /\ run.validation.retryHint # NoHint)
  /\ run.pc = "validate" => (~run.validated /\ run.retries = 0 /\ run.stage = "main")
  /\ run.stage = "retry" => (run.retries = 1 /\ run.forceBrowser /\ run.pc # "fetch_light")
  /\ run.retryFetch # NoFetch =>
       (run.retries = 1 /\ (run.retryFetch.fetchMethod = "browser" \/ run.retryFetch.statusCode = 0))

\* A run that retried on the pagination hint and succeeded.
C6_Witness ==
  /\ run.retries = 1
  /\ run.validation.retryHint = "paginate-forward"
  /\ run.pc = "done"

\* C7: in the sink's log every pass is organization, then locations, then
\* classes: a call is made only right after its parent's upsert has
\* returned, and nothing of a pass follows a failed upsert of that pass.
C7_ParentBeforeChild ==
  \A i \in 1..Len(upLog) :
    LET e == upLog[i]
        parent == IF e.op = "loc" THEN "org" ELSE "loc"
    IN /\ (e.ev = "call" /\ e.op = "org") =>
            \A j \in 1..(i - 1) : upLog[j].pass # e.pass
       /\ (e.ev = "call" /\ e.op # "org") =>
            /\ i > 1
            /\ upLog[i - 1].op = parent
            /\ upLog[i - 1].ev = "ok"
            /\ upLog[i - 1].pass = e.pass
       /\ (e.ev # "call") =>
            /\ i > 1
            /\ upLog[i - 1].op = e.op
            /\ upLog[i - 1].ev = "call"
            /\ upLog[i - 1].pass = e.pass
       /\ (e.ev = "fail") =>
            \A j \in (i + 1)..Len(upLog) : upLog[j].pass # e.pass

\* The locations upsert of the retry pass failed, nothing more of that pass
\* was issued, and the main pass went through to the classes.
C7_Witness ==
  /\ \E i \in 1..Len(upLog) :
        upLog[i].op = "loc" /\ upLog[i].ev = "fail" /\ upLog[i].pass = "retry"
  /\ \E i \in 1..Len(upLog) :
        upLog[i].op = "cls" /\ upLog[i].ev = "ok" /\ upLog[i].pass = "main"

\* C8: every class handed to upsertClasses carries a location id that the
\* upsertLocations call before it returned.
C8_ClassesCarryReturnedLocation ==
  \A i \in 1..Len(upLog) :
    (upLog[i].op = "cls" /\ upLog[i].ev = "call") =>
      \A k \in 1..Len(upLog[i].classes) :
        \E j \in 1..Len(upLog[i - 1].ids) :
          upLog[i].classes[k].locationId = upLog[i - 1].ids[j]

\* The extraction result a pass of the log persisted.
ScrapeOfPass(pass) == IF pass = "retry" THEN run.retryScrape ELSE run.scrapeResult

EnvironmentErrors == {"login", "fetch", "empty", "paywall", "extract", "persist"}

\* C10: a run on a url for which the same scanner has already returned
\* success returns success with the same classesUpserted, when neither run
\* retried, the later run met no failure of its environment and the site
\* served it nothing but what it served the earlier run.
C10_RerunSameCount ==
  \A i \in run.prior :
    (/\ Settled(run)
     /\ run.err \notin EnvironmentErrors
     /\ run.retries = 0 /\ results[i].retries = 0
     /\ run.fetchResult.html \in {"", results[i].html}) =>
      (run.pc = "done" /\ run.classesUpserted = results[i].classesUpserted)

\* C11: for any host, at most one page request of fetchWithStealth (a
\* light request or a browser navigation) is in flight at a time.
C11_OnePageRequestPerHost ==
  \A f, g \in Callers :
    (/\ f # g
     /\ fetchers[f].pc \in {"light", "goto"}
     /\ fetchers[g].pc \in {"light", "goto"})
      => fetchers[f].url.host # fetchers[g].url.host

\* C12: while the engine stays connected puppeteer.launch is called at
\* most once, and every call that has been given an engine has been given
\* the same one.
C12_SingleEngineLaunch ==
  ~net.disconnected =>
    /\ net.launches <= 1
    /\ \A f, g \in Callers :
         (fetchers[f].engine # 0 /\ fetchers[g].engine # 0)
           => fetchers[f].engine = fetchers[g].engine

\* C14: a result fetchWithStealth returns with fetch method browser
\* carries the page and the context, and the context is open.
C14_BrowserResultCarriesOpenContext ==
  \A f \in Callers :
    (fetchers[f].pc = "returned" /\ fetchers[f].result.fetchMethod = "browser")
      => /\ fetchers[f].result.page
         /\ fetchers[f].result.context # 0
         /\ fetchers[f].context = "open"

C20_RobotsRequestedOnce ==
  \A h \in DOMAIN net.robotsRequests : net.robotsRequests[h] <= 1

\* C13: when run() has settled, every browser context its fetches handed
\* to it is closed.
C13_ContextsClosedWhenSettled ==
  Settled(run) => \A c \in 1..Len(run.contexts) : run.contexts[c] = "closed"


\* C16: when the orchestrator starts the retry fetch because the validator
\* found a password input on the page the browser loaded (hint
\* re-authenticate), the post-load probe has already reported the logout:
\* onLoggedOut has closed the gate and started a login.
C16_LoginStartedBeforeRetryFetch ==
  (run.stage = "retry" /\ run.pc = "fetch_robots"
     /\ run.validation.retryHint = "re-authenticate")
    => Len(logins) > 0


\* C17: when checkUrl(u), checkContent(u, content, classCount) and
\* checkUrl(u) are called one after another, the second checkUrl returns
\* safe = false, whatever the content and the class count.
C17_SecondCheckUrlUnsafe == lastCheck.seq = 3 => ~lastCheck.safe

\* C18: checkUrl(u) returns safe = false exactly when the host's depth
\* counter has reached maxDepth, u is in the host's visited set, u does
\* not parse, a path segment occurs three or more times, u has more than
\* eight query parameters, or a segment longer than 20 characters has an
\* entropy above 4.0 bits.
C18_CheckUrlUnsafeExactlyWhen ==
  lastCheck.op = "checkUrl" =>
    LET u == lastCheck.url
        host == IF u.parses THEN u.host ELSE u.id
        depth == IF host \in DOMAIN trapDetector.depthCounters
                   THEN trapDetector.depthCounters[host] ELSE 0
        visited == host \in DOMAIN trapDetector.visitedUrls
                     /\ u.id \in trapDetector.visitedUrls[host]
        n == Len(u.segs)
        repeated == \E i \in 1..n, j \in 1..n, k \in 1..n :
                      /\ i < j /\ j < k
                      /\ u.segs[i].name = u.segs[j].name /\ u.segs[j].name = u.segs[k].name
        random == \E i \in 1..n : u.segs[i].len >= 21 /\ u.segs[i].milliEntropy > 4000
    IN lastCheck.safe <=>
         ~(depth >= trapDetector.maxDepth \/ visited \/ ~u.parses \/ repeated
             \/ u.params >= 9 \/ random)

\* checkUrl has refused a page it has not visited and whose url shows no
\* pattern, because the host's depth counter has reached maxDepth.
C18_Witness ==
  /\ lastCheck.op = "checkUrl" /\ lastCheck.url = Schedule /\ ~lastCheck.safe
  /\ Schedule.id \notin trapDetector.visitedUrls[Schedule.host]
  /\ trapDetector.depthCounters[Schedule.host] = trapDetector.maxDepth

\* C19: a checkUrl or checkContent call leaves every host's visited set and
\* content-hash set with all their elements and its depth counter no
\* lower than before; only resetDomain and resetAll take anything away.
C19_MonotonicBetweenResets ==
  [][lastCheck'.op \in {"checkUrl", "checkContent"} =>
       /\ \A h \in DOMAIN trapDetector.visitedUrls :
            /\ h \in DOMAIN trapDetector'.visitedUrls
            /\ trapDetector.visitedUrls[h] \subseteq trapDetector'.visitedUrls[h]
       /\ \A h \in DOMAIN trapDetector.contentHashes :
            /\ h \in DOMAIN trapDetector'.contentHashes
            /\ trapDetector.contentHashes[h] \subseteq trapDetector'.contentHashes[h]
       /\ \A h \in DOMAIN trapDetector.depthCounters :
            /\ h \in DOMAIN trapDetector'.depthCounters
            /\ trapDetector.depthCounters[h] <= trapDetector'.depthCounters[h]]_vars

\* A checkContent call has added a third body and a second page to what
\* the detector holds for the host.
C19_Witness ==
  /\ lastCheck.op = "checkContent" /\ lastCheck.safe
  /\ Schedule.host \in DOMAIN trapDetector.contentHashes
  /\ Cardinality(trapDetector.contentHashes[Schedule.host]) = 3
  /\ Cardinality(trapDetector.visitedUrls[Schedule.host]) = 2
  /\ trapDetector.depthCounters[Schedule.host] = 3


\* C29: an upsert call that failed is the last sink event of its run, and
\* the run has rejected with the persist error: nothing is upserted after
\* a failed upsert, in the main persist stage or in the validation retry.
C29_PersistFailureRejects ==
  \A i \in 1..Len(upLog) :
    upLog[i].ev = "fail" =>
      (i = Len(upLog) /\ run.pc = "failed" /\ run.err = "persist")

\* C30: the classes handed to upsertClasses come from an extraction
\* result that validateExtraction has been applied to, in the main pass
\* and in the validation retry.
C30_HandedClassesWereValidated ==
  \A i \in 1..Len(upLog) :
    (upLog[i].op = "cls" /\ upLog[i].ev = "call") =>
      (run.validated /\ ScrapeOfPass(upLog[i].pass) = run.scrapeResult)


\* C24: validateExtraction returns as confidence the product of the
\* factors of the count, coherence and duplicate checks and, only when a
\* page is given, of the pagination and auth-wall checks; valid holds
\* exactly when the confidence is at least 0.5; retryHint is the hint of
\* the first check, in that order, that gave one.
C24_ConfidenceProductAndFirstHint ==
  direct.fn = "validateExtraction" =>
    LET c1 == checkCountPlausibility(direct.result)
        c2 == checkContentCoherence(direct.result)
        c3 == checkDuplicates(direct.result)
        c4 == checkPaginationState(direct.page)
        c5 == checkAuthWall(direct.page, direct.html)
        withPage == direct.page.present
        num == c1.factor * c2.factor * c3.factor *
                 (IF withPage THEN c4.factor * c5.factor ELSE 1)
        den == IF withPage THEN 100000 ELSE 1000
        hint == IF c1.hint # NoHint THEN c1.hint
                ELSE IF c2.hint # NoHint THEN c2.hint
                ELSE IF c3.hint # NoHint THEN c3.hint
                ELSE IF withPage /\ c4.hint # NoHint THEN c4.hint
                ELSE IF withPage /\ c5.hint # NoHint THEN c5.hint
                ELSE NoHint
    IN /\ direct.out.num = num /\ direct.out.den = den
       /\ direct.out.valid <=> (2 * num >= den)
       /\ direct.out.retryHint = hint

\* Three equal classes validated with a page that shows a next button:
\* confidence 0.6 * 0.7, invalid, hint paginate-forward.
C24_Witness ==
  /\ direct.fn = "validateExtraction"
  /\ Len(direct.result.classes) = 3
  /\ direct.page.present /\ direct.page.nextButton /\ ~direct.page.password
  /\ direct.html = "sched3"
  /\ direct.out.num * 100 = 42 * direct.out.den
  /\ ~direct.out.valid /\ direct.out.retryHint = "paginate-forward"

\* C25, as stated: the confidence is 1.0 when every check passes and
\* exactly 0.1 for every extraction with zero classes, with or without a
\* page and whatever the page holds.
C25_ZeroClassesConfidenceTenth ==
  direct.fn = "validateExtraction" =>
    /\ Len(direct.result.classes) = 0 => direct.out.num * 10 = direct.out.den
    /\ direct.out.retryHint = NoHint /\ direct.out.valid
          /\ Len(direct.result.classes) >= 3 /\ ~direct.page.present
          /\ (\A k \in 1..Len(direct.result.classes) :
                 ~HasMarkupChar(direct.result.classes[k].name))
          /\ Cardinality({direct.result.classes[k] : k \in 1..Len(direct.result.classes)})
                = Len(direct.result.classes)
        => direct.out.num = direct.out.den

\* C25, amended: for an extraction with zero classes the confidence is 0.1
\* times the factors of the page checks: exactly 0.1 when no page is given
\* or the page shows no next button, no password field and fewer than two
\* login phrases, 0.07 with a next button alone, and below that with a
\* password field or login phrases.
C25_ZeroClassesTenthTimesPageFactors ==
  (direct.fn = "validateExtraction" /\ Len(direct.result.classes) = 0) =>
    LET page == direct.page
        next == page.present /\ page.open /\ page.nextButton
        password == page.present /\ page.open /\ page.password
        phrases == page.present /\ ~password /\ LoginPhraseCount(direct.html) >= 2
        pagination == IF next THEN 7 ELSE 10
        auth == IF password THEN 1 ELSE IF phrases THEN 4 ELSE 10
    IN /\ direct.out.num * 1000 = pagination * auth * direct.out.den
       /\ ~direct.out.valid /\ direct.out.retryHint = "wait-longer"

\* No classes and a page with a next button and no password field:
\* confidence 0.07.
C25_Witness ==
  /\ direct.fn = "validateExtraction" /\ Len(direct.result.classes) = 0
  /\ direct.page.present /\ direct.page.open /\ direct.page.nextButton
  /\ ~direct.page.password /\ direct.html = "sched3"
  /\ direct.out.num * 100 = 7 * direct.out.den


\* C26: normalization is idempotent: normalizeDateTime given the string it
\* returned for an accepted raw string, with the same timezone, succeeds
\* and returns that string.
C26_NormalizeIdempotent ==
  (direct.fn = "normalizeDateTime" /\ direct.prev.ok) =>
    (direct.out.ok /\ direct.out.value = direct.raw)

C23_SanitisedHeaders ==
  direct.fn = "analyseInterceptedRequests" =>
    \A i \in 1..Len(direct.out) :
      direct.out[i].headers =
        {h \in direct.requests[1].headers :
           toLowerCase(h) \notin {"host", "content-length", "transfer-encoding",
                                  "connection", "cookie", "sec-fetch-site",
                                  "sec-fetch-mode", "sec-fetch-dest", "sec-fetch-user"}}


\* C21: fetchWeekParallel never rejects and, once called, resolves; it
\* resolves with exactly 7 results, the i-th for week start plus i days,
\* with success exactly when that day's request returned a 2xx status, so
\* a failed day leaves every other day's result as its own request made it.
C21_WeekResolvesSevenResults ==
  /\ [](week.pc \in {"idle", "awaiting", "resolved"})
  /\ [](week.pc = "resolved" =>
         /\ Len(week.results) = 7
         /\ \A i \in 1..7 :
              /\ week.results[i].date = week.weekStartDate + (i - 1)
              /\ week.results[i].success <=>
                   /\ ~week.jobs[i].response.threw
                   /\ week.jobs[i].response.statusCode \in 200..299)
  /\ (week.pc = "awaiting" ~> week.pc = "resolved")

\* A week resolved with two failed days between days that succeeded.
C21_Witness ==
  /\ week.pc = "resolved"
  /\ week.weekStartDate = 8
  /\ week.results[1] = [date |-> 8, success |-> TRUE, error |-> ""]
  /\ week.jobs[1].response.statusCode = 200
  /\ week.results[2] = [date |-> 9, success |-> FALSE, error |-> "HTTP"]
  /\ week.results[3] = [date |-> 10, success |-> FALSE, error |-> "transport"]
  /\ week.results[7] = [date |-> 14, success |-> TRUE, error |-> ""]
  /\ week.jobs[7].response.statusCode = 200

\* C22: analyseInterceptedRequests emits no pattern whose url template,
\* with the date substituted, does not parse as a url.
C22_NoUnsubstitutablePatternEmitted ==
  direct.fn = "analyseInterceptedRequests" =>
    \A i \in 1..Len(direct.out) : direct.out[i].urlTemplate.parses


\* C28: a process ended by a shutdown signal has closed the browser it
\* launched and disconnected the rate limiters, and no upsert is in
\* flight when it ends: every upsert that was called has returned or
\* thrown.
C28_GracefulShutdown ==
  proc.pc = "exited" =>
    /\ ExitHooksRegistered => proc.browserClosed
    /\ proc.limitersDisconnected
    /\ run.pc \notin {"upsert_org", "upsert_loc", "upsert_cls"}


\* C31: a checkContent call that returns safe adds exactly the content
\* hash and the url to the sets of the url's host and raises that host's
\* depth by exactly 1, leaving every other host as it was; checkUrl and
\* a checkContent call that returns unsafe leave the whole state of the
\* detector unchanged.
C31_OnlySafeContentCheckRecords ==
  [][/\ lastCheck'.op = "checkUrl" => trapDetector' = trapDetector
     /\ lastCheck'.op = "checkContent" /\ ~lastCheck'.safe => trapDetector' = trapDetector
     /\ lastCheck'.op = "checkContent" /\ lastCheck'.safe =>
          \A content \in TrapContents, classCount \in {0, 3} :
            CheckContentCall(lastCheck'.url, content, classCount) =>
            LET u == lastCheck'.url
                host == extractHostname(u)
                hosts == DOMAIN trapDetector.depthCounters \cup DOMAIN trapDetector'.depthCounters
                         \cup DOMAIN trapDetector.contentHashes \cup DOMAIN trapDetector'.contentHashes
                         \cup DOMAIN trapDetector.visitedUrls \cup DOMAIN trapDetector'.visitedUrls
            IN /\ trapDetector'.maxDepth = trapDetector.maxDepth
               /\ MapGet(trapDetector'.contentHashes, host, {}) =
                    MapGet(trapDetector.contentHashes, host, {}) \cup {hashContent(content)}
               /\ hashContent(content) \notin MapGet(trapDetector.contentHashes, host, {})
               /\ MapGet(trapDetector'.visitedUrls, host, {}) =
                    MapGet(trapDetector.visitedUrls, host, {}) \cup {u.id}
               /\ MapGet(trapDetector'.depthCounters, host, 0) =
                    MapGet(trapDetector.depthCounters, host, 0) + 1
               /\ \A h \in hosts \ {host} :
                    /\ MapGet(trapDetector'.contentHashes, h, {}) =
                         MapGet(trapDetector.contentHashes, h, {})
                    /\ MapGet(trapDetector'.visitedUrls, h, {}) =
                         MapGet(trapDetector.visitedUrls, h, {})
                    /\ MapGet(trapDetector'.depthCounters, h, 0) =
                         MapGet(trapDetector.depthCounters, h, 0)]_vars

\* A safe content check on one host after two on another, and one
\* unsafe for low density in between.
C31_Witness ==
  /\ lastCheck.op = "checkContent" /\ lastCheck.safe /\ lastCheck.url = Labyrinth
  /\ Labyrinth.host \in DOMAIN trapDetector.depthCounters
  /\ trapDetector.depthCounters[Labyrinth.host] = 1
  /\ trapDetector.contentHashes[Labyrinth.host] = {hashContent("sched3")}
  /\ Schedule.host \in DOMAIN trapDetector.depthCounters
  /\ trapDetector.depthCounters[Schedule.host] = 2
  /\ Cardinality(trapDetector.visitedUrls[Schedule.host]) = 1

\* C40: for every host the depth counter equals the size of the host's
\* content-hash set and is at least the size of its visited-url set; a
\* reset of a host leaves none of the three for it, a reset of all leaves
\* none for any host.
C40_DepthEqualsHashCount ==
  /\ [](\A h \in DOMAIN trapDetector.depthCounters \cup DOMAIN trapDetector.contentHashes
                 \cup DOMAIN trapDetector.visitedUrls :
           /\ MapGet(trapDetector.depthCounters, h, 0) =
                Cardinality(MapGet(trapDetector.contentHashes, h, {}))
           /\ MapGet(trapDetector.depthCounters, h, 0) >=
                Cardinality(MapGet(trapDetector.visitedUrls, h, {})))
  /\ [](lastCheck.op = "resetAll" =>
           /\ trapDetector.depthCounters = EmptyMap
           /\ trapDetector.contentHashes = EmptyMap
           /\ trapDetector.visitedUrls = EmptyMap)
  /\ [][\A u \in TrapUrls : resetDomain(extractHostname(u)) =>
           /\ extractHostname(u) \notin DOMAIN trapDetector'.depthCounters
           /\ extractHostname(u) \notin DOMAIN trapDetector'.contentHashes
           /\ extractHostname(u) \notin DOMAIN trapDetector'.visitedUrls]_vars

\* A host reset after three recorded pages while another host keeps its
\* one page.
C40_Witness ==
  /\ lastCheck.op = "resetDomain"
  /\ Schedule.host \notin DOMAIN trapDetector.depthCounters
  /\ Labyrinth.host \in DOMAIN trapDetector.depthCounters
  /\ trapDetector.depthCounters[Labyrinth.host] = 1
  /\ Cardinality(trapDetector.visitedUrls[Labyrinth.host]) = 1


\* C32: whenever validateExtraction returns valid = false the report
\* carries a retryHint: no combination of check outcomes gives a
\* confidence below 0.5 with no hint.
C32_InvalidCarriesHint ==
  (direct.fn = "validateExtraction" /\ ~direct.out.valid) => direct.out.retryHint # NoHint

\* C33: when the live page contains a password input, validateExtraction
\* returns a confidence of at most 0.1 and retryHint = re-authenticate,
\* whatever number of classes was extracted.
C33_PasswordFieldReauthenticates ==
  (direct.fn = "validateExtraction" /\ direct.page.present /\ direct.page.open
     /\ direct.page.password) =>
    /\ 10 * direct.out.num <= direct.out.den
    /\ direct.out.retryHint = "re-authenticate"


\* C34: each class's start time is normalized in the timezone of the
\* class's own location (the location its foreign key is resolved to),
\* and in the gymTimezone argument only when that location has no
\* timezone of its own.
C34_ClassNormalizedInLocationTimezone ==
  direct.fn = "normalise" =>
    \A i \in 1..Len(direct.classes) :
      LET own == direct.locations[1].timezone
          zone == IF own # "UTC" THEN own ELSE direct.gymTimezone
      IN direct.normalizedClasses[i].startTime = safeNormalize(direct.classes[i].startTime, zone)


\* C35: loadSavedCookies returns true and sets the session state to
\* logged-in exactly when a store exists, parses, is at most
\* cookieTtlHours old and is injected into the page; for a missing, stale
\* or unreadable store it returns false and leaves the session state and
\* the gate as they were and does not touch the page's cookies.
C35_LoadSavedCookiesExactlyWhenFresh ==
  direct.fn = "loadSavedCookies" =>
    LET loadable == direct.store = "saved" /\ direct.ageHours <= COOKIE_TTL_HOURS
    IN /\ direct.out.ret <=> (loadable /\ ~direct.setCookieThrew)
       /\ direct.out.ret => direct.after.currentState = "logged-in"
       /\ ~direct.out.ret => direct.after = direct.before
       /\ direct.after.sessionGate = direct.before.sessionGate
       /\ direct.after.gates = direct.before.gates
       /\ ~loadable => ~direct.out.setCookieCalled

\* A store exactly cookieTtlHours old loaded while a login is in progress.
C35_Witness ==
  /\ direct.fn = "loadSavedCookies" /\ direct.out.ret
  /\ direct.ageHours = COOKIE_TTL_HOURS
  /\ direct.before.currentState = "logged-out" /\ direct.before.loginInProgress
  /\ direct.after.currentState = "logged-in"


\* C36: nothing is persisted for a url that robots.txt disallows: a pass
\* whose fetchWithStealth call returned the empty result of the
\* compliance gate (no body, status 0) makes no sink call.
C36_DisallowedUrlNotPersisted ==
  \A i \in 1..Len(upLog) :
    LET fetched == IF upLog[i].pass = "retry" THEN run.retryFetch ELSE run.fetchResult
    IN ~(fetched.html = "" /\ fetched.statusCode = 0 /\ fetched.fetchMethod = "light")


\* C37: in every reachable state the session gate is pending exactly when
\* loginInProgress is true.
C37_GatePendingIffLoginInProgress ==
  (GateState(sessionGate) = "pending") <=> loginInProgress

\* A second login in progress behind a new pending gate, after the first
\* one was rejected.
C37_Witness ==
  /\ Len(gates) = 3 /\ gates[2] = "rejected" /\ gates[3] = "pending"
  /\ loginInProgress
  /\ \E c \in Callers : callerPc[c] = "parked"

\* C38: once re-authentication has failed the gate stays failed: no later
\* step replaces the rejected gate or starts a new login.
C38_FailedGateStaysFailed ==
  [][GateState(sessionGate) = "rejected" =>
       /\ gates' = gates
       /\ logins' = logins
       /\ ~loginInProgress']_vars


\* C39: the page run is about to pass to the load-more click or to
\* validateExtraction belongs to a context that is still open.
C39_PageOfOpenContext ==
  (run.pc \in {"loadmore", "validate"} /\ run.fetchResult.page) =>
    ContextOpen(run, run.fetchResult.context)

====
